---- MODULE Spec2Model ----
(***************************************************************************)
(* State-machine model of the snailemu CPU + bus core: the 65C816 tick     *)
(* handler (Cpu::tick), interrupt entry, the stack, the memory bus router, *)
(* the hardware registers, the PPU dot clock that raises NMI/IRQ, and the  *)
(* DMA engine.  Integers keep the width of the Rust types (u8, u16).       *)
(* Pixel composition, the APU and the joypad ports are opaque sinks.       *)
(***************************************************************************)
EXTENDS Integers, Sequences, FiniteSets, TLC

(* ------------------------------ bounds --------------------------------- *)
\* number of CPU ticks explored from each initial state
MaxTicks == 3
\* number of most recent bus accesses of a tick kept in the observation log
LogCap == 12

(* ------------------------- program constants --------------------------- *)
IO_CYCLES == 6
RESET_VECTOR == \hFFFC
FAST_CYCLES == 6
SLOW_CYCLES == 8
EXTRA_SLOW_CYCLES == 12
DMA_CHANNEL_COUNT == 8
DMA_CYCLES == 8
WRAM_SIZE == 131072
CHIP_VERSION == 2
JOYPAD_AUTO_READ_LINES == 3
PPU_LATCH_BIT == 128
DOTS_PER_LINE == 340
TOTAL_SCANLINES == 262
DISPLAY_TOP == 1
HBLANK_START == 274
HBLANK_END == 1
VBLANK_START_NORMAL == 225
VBLANK_START_OVERSCAN == 240
STANDARD_PIXEL_CYCLES == 4
WIDE_PIXEL_CYCLES == 6

\* bitflags CpuAction
NMI == "NMI"
IRQ == "IRQ"
DMA == "DMA"

(* ------------------------- fixed-width helpers ------------------------- *)
W8(x) == x % 256
W16(x) == x % 65536

\* bit i of v
Bit(v, i) == (v \div (2 ^ i)) % 2

AndTable == <<<<0, 0>>, <<0, 1>>>>
OrTable == <<<<0, 1>>, <<1, 1>>>>
XorTable == <<<<0, 1>>, <<1, 0>>>>

RECURSIVE Bitwise(_, _, _, _)
Bitwise(t, a, b, n) ==
    IF n = 0 THEN 0
    ELSE t[(a % 2) + 1][(b % 2) + 1] + 2 * Bitwise(t, a \div 2, b \div 2, n - 1)

BitAnd(a, b) == Bitwise(AndTable, a, b, 16)
BitOr(a, b) == Bitwise(OrTable, a, b, 16)
BitXor(a, b) == Bitwise(XorTable, a, b, 16)
\* !x at width w bits
BitNot(a, w) == (2 ^ w) - 1 - a

\* ByteAccess for u16
Lower(x) == x % 256
Upper(x) == (x \div 256) % 256
SetLower(x, b) == (x \div 256) * 256 + b
SetUpper(x, b) == b * 256 + (x % 256)

(* ------------------------------- PPU clock ----------------------------- *)
\* Ppu::next_pixel once the pending cycles cover the next dot
NextPixel(p) ==
    LET vblank_start == IF p.overscan THEN VBLANK_START_OVERSCAN
                        ELSE VBLANK_START_NORMAL
        line(x) == IF x.v = DISPLAY_TOP THEN [x EXCEPT !.overscan = x.overscan_buffer]
                   ELSE IF x.v < vblank_start THEN x
                   ELSE IF ~x.vblank THEN [x EXCEPT !.vblank = TRUE]
                   ELSE IF x.v = TOTAL_SCANLINES THEN [x EXCEPT !.v = 0, !.vblank = FALSE]
                   ELSE x
        dot(x) == IF x.h = DOTS_PER_LINE THEN line([x EXCEPT !.h = 0, !.v = @ + 1])
                  ELSE x
        blank(x) == [x EXCEPT !.hblank = (x.h >= HBLANK_START) \/ (x.h < HBLANK_END),
                              !.next_pixel_cycles =
                                  IF x.h \in {322, 326} THEN WIDE_PIXEL_CYCLES
                                  ELSE STANDARD_PIXEL_CYCLES]
    IN  blank(dot([p EXCEPT !.cycles = @ - p.next_pixel_cycles, !.h = @ + 1]))

\* a VBlank start that requests the NMI whether or not it is enabled
NmiRequestedAlways(hr) == TRUE

\* HardwareRegs::update at the start of VBlank: `if self.nmi.enabled`
NmiRequested(hr) == hr.nmi_enabled

\* a row match that holds on every dot of the row
TimerConditionWholeRow(hr, p) ==
    CASE hr.irq_enabled = "MatchRow" -> p.v = hr.irq_row
      [] hr.irq_enabled = "MatchColumn" -> p.h = hr.irq_column
      [] hr.irq_enabled = "MatchRowAndColumn" ->
            p.v = hr.irq_row /\ p.h = hr.irq_column
      [] OTHER -> FALSE

\* HardwareRegs::update: timer_condition
TimerCondition(hr, p) ==
    CASE hr.irq_enabled = "MatchRow" -> p.v = hr.irq_row /\ p.h = 0
      [] hr.irq_enabled = "MatchColumn" -> p.h = hr.irq_column
      [] hr.irq_enabled = "MatchRowAndColumn" ->
            p.v = hr.irq_row /\ p.h = hr.irq_column
      [] OTHER -> FALSE

\* HardwareRegs::update, called after every dot
RegsUpdate(hr, p) ==
    LET blank(x) ==
            IF p.vblank # x.vblank
            THEN [x EXCEPT !.vblank = p.vblank, !.hblank = p.hblank,
                           !.nmi_active = p.vblank,
                           !.cpu_action = IF p.vblank /\ NmiRequested(x)
                                          THEN @ \cup {NMI} ELSE @,
                           !.auto_read_active = IF p.vblank /\ x.auto_read_enabled
                                                THEN JOYPAD_AUTO_READ_LINES ELSE @]
            ELSE [x EXCEPT !.hblank = p.hblank]
        timer(x) ==
            IF x.irq_enabled # "Never" /\ ~x.irq_active /\ TimerCondition(x, p)
            THEN [x EXCEPT !.irq_active = TRUE, !.cpu_action = @ \cup {IRQ}]
            ELSE x
        joypad(x) == [x EXCEPT !.auto_read_active = IF @ > 0 THEN @ - 1 ELSE @,
                               !.io_triggered = FALSE]
    IN  joypad(timer(blank(hr)))

\* the while loop of Hardware::tick
RECURSIVE Pump(_)
Pump(m) ==
    LET pixel(x) == [x EXCEPT !.ppu = NextPixel(x.ppu)]
        update(x) == [x EXCEPT !.hregs = RegsUpdate(x.hregs, x.ppu)]
    IN  IF m.ppu.cycles < m.ppu.next_pixel_cycles THEN m
        ELSE Pump(update(pixel(m)))

\* Hardware::tick (the u64 cycle counter stays far below its width within
\* MaxTicks ticks)
HwTick(m, cycles) ==
    LET count(x) == [x EXCEPT !.clock = @ + cycles]
    IN  count(Pump([m EXCEPT !.ppu.cycles = @ + cycles]))

(* ------------------------------ bus router ----------------------------- *)
rom20(bank, offset) == 32768 * (bank % 128) + (offset % 32768)
rom21(bank, offset) == 65536 * (bank % 64) + offset
sram20(bank, offset) == 32768 * (bank % 16) + (offset % 32768)
sram21(bank, offset) == 8192 * (bank % 32) + (offset % 8192)

\* MemoryLocation::new
Loc(bus, offset, cycles) == [bus |-> bus, offset |-> offset, cycles |-> cycles]

\* a router that decodes only two address lines of the WRAM port
ByteAtNarrowPort(mode, bank, offset) ==
    IF Bit(bank, 6) = 1
    THEN CASE bank = \h7E -> Loc("wram_data", offset, SLOW_CYCLES)
           [] bank = \h7F -> Loc("wram_data", 65536 + offset, SLOW_CYCLES)
           [] OTHER ->
                IF mode = "LoRom"
                THEN IF Bit(offset, 15) = 1
                     THEN Loc("rom", rom20(bank, offset), SLOW_CYCLES)
                     ELSE IF (bank \div 16) % 8 = 7
                          THEN Loc("sram", sram20(bank, offset), SLOW_CYCLES)
                          ELSE Loc("open_bus", 0, FAST_CYCLES)
                ELSE Loc("rom", rom21(bank, offset), SLOW_CYCLES)
    ELSE CASE offset \div 8192 = 0 -> Loc("wram_data", offset, SLOW_CYCLES)
           [] offset \div 8192 = 1 ->
                CASE (offset \div 64) * 64 = \h2100 -> Loc("ppu", offset % 64, FAST_CYCLES)
                  [] (offset \div 64) * 64 = \h2140 -> Loc("apu", offset % 4, FAST_CYCLES)
                  [] (offset \div 64) * 64 = \h2180 -> Loc("wram", offset % 4, FAST_CYCLES)
                  [] OTHER -> Loc("open_bus", 0, FAST_CYCLES)
           [] offset \div 8192 = 2 ->
                CASE (offset \div 128) * 128 = \h4200 -> Loc("regs", offset % 128, FAST_CYCLES)
                  [] (offset \div 128) * 128 = \h4300 ->
                        [bus |-> "dma", offset |-> offset % 16, cycles |-> FAST_CYCLES,
                         index |-> (offset \div 16) % 8]
                  [] (offset \div 128) * 128 = \h4000 ->
                        Loc("joypad", offset % 128, EXTRA_SLOW_CYCLES)
                  [] OTHER -> Loc("open_bus", 0, FAST_CYCLES)
           [] offset \div 8192 = 3 ->
                IF mode = "HiRom" /\ Bit(bank, 5) = 1
                THEN Loc("sram", sram21(bank, offset), SLOW_CYCLES)
                ELSE Loc("open_bus", 0, SLOW_CYCLES)
           [] OTHER ->
                Loc("rom", IF mode = "LoRom" THEN rom20(bank, offset)
                           ELSE rom21(bank, offset), SLOW_CYCLES)

\* Hardware::byte_at
ByteAt(mode, bank, offset) ==
    IF Bit(bank, 6) = 1
    THEN CASE bank = \h7E -> Loc("wram_data", offset, SLOW_CYCLES)
           [] bank = \h7F -> Loc("wram_data", 65536 + offset, SLOW_CYCLES)
           [] OTHER ->
                IF mode = "LoRom"
                THEN IF Bit(offset, 15) = 1
                     THEN Loc("rom", rom20(bank, offset), SLOW_CYCLES)
                     ELSE IF (bank \div 16) % 8 = 7
                          THEN Loc("sram", sram20(bank, offset), SLOW_CYCLES)
                          ELSE Loc("open_bus", 0, FAST_CYCLES)
                ELSE Loc("rom", rom21(bank, offset), SLOW_CYCLES)
    ELSE CASE offset \div 8192 = 0 -> Loc("wram_data", offset, SLOW_CYCLES)
           [] offset \div 8192 = 1 ->
                CASE (offset \div 64) * 64 = \h2100 -> Loc("ppu", offset % 64, FAST_CYCLES)
                  [] (offset \div 64) * 64 = \h2140 -> Loc("apu", offset % 4, FAST_CYCLES)
                  [] (offset \div 64) * 64 = \h2180 -> Loc("wram", offset % 64, FAST_CYCLES)
                  [] OTHER -> Loc("open_bus", 0, FAST_CYCLES)
           [] offset \div 8192 = 2 ->
                CASE (offset \div 128) * 128 = \h4200 -> Loc("regs", offset % 128, FAST_CYCLES)
                  [] (offset \div 128) * 128 = \h4300 ->
                        [bus |-> "dma", offset |-> offset % 16, cycles |-> FAST_CYCLES,
                         index |-> (offset \div 16) % 8]
                  [] (offset \div 128) * 128 = \h4000 ->
                        Loc("joypad", offset % 128, EXTRA_SLOW_CYCLES)
                  [] OTHER -> Loc("open_bus", 0, FAST_CYCLES)
           [] offset \div 8192 = 3 ->
                IF mode = "HiRom" /\ Bit(bank, 5) = 1
                THEN Loc("sram", sram21(bank, offset), SLOW_CYCLES)
                ELSE Loc("open_bus", 0, SLOW_CYCLES)
           [] OTHER ->
                Loc("rom", IF mode = "LoRom" THEN rom20(bank, offset)
                           ELSE rom21(bank, offset), SLOW_CYCLES)

\* a byte array kept as the cells that differ from the fill value
Peek(data, index, fill) == IF index \in DOMAIN data THEN data[index] ELSE fill
Poke(data, index, value) ==
    [i \in (DOMAIN data) \cup {index} |-> IF i = index THEN value ELSE data[i]]

\* panic!: the process aborts, nothing runs afterwards
Panic(m, why) == IF m.fault = "none" THEN [m EXCEPT !.fault = why] ELSE m

\* HardwareRegs as HardwareBus: read
RegsRead(m, offset) ==
    LET hr == m.hregs IN
    CASE offset = \h10 ->
            [m EXCEPT !.v = (IF hr.nmi_active THEN 128 ELSE 0) + CHIP_VERSION,
                      !.hregs.nmi_active = FALSE]
      [] offset = \h11 ->
            [m EXCEPT !.v = IF hr.irq_active THEN 128 ELSE 0,
                      !.hregs.irq_active = FALSE]
      [] offset = \h12 ->
            [m EXCEPT !.v = (IF hr.vblank THEN 128 ELSE 0) + (IF hr.hblank THEN 64 ELSE 0)
                            + (IF hr.auto_read_active > 0 THEN 1 ELSE 0)]
      [] offset = \h13 -> [m EXCEPT !.v = hr.io_value]
      [] offset = \h14 -> [m EXCEPT !.v = Lower(hr.division_result)]
      [] offset = \h15 -> [m EXCEPT !.v = Upper(hr.division_result)]
      [] offset = \h16 -> [m EXCEPT !.v = Lower(hr.multiplication_result)]
      [] offset = \h17 -> [m EXCEPT !.v = Upper(hr.multiplication_result)]
      [] OTHER -> [m EXCEPT !.v = 0]

\* a divider whose remainder is taken modulo the divisor plus one
DivisionSkewed(lhs, value) ==
    IF value # 0
    THEN [result |-> lhs \div value, remainder |-> lhs % (value + 1)]
    ELSE [result |-> \hFFFF, remainder |-> lhs]

\* the write to $4206: quotient, and the remainder kept in multiplication.result
Division(lhs, value) ==
    IF value # 0
    THEN [result |-> lhs \div value, remainder |-> lhs % value]
    ELSE [result |-> \hFFFF, remainder |-> lhs]

\* HardwareRegs as HardwareBus: write
RegsWrite(m, offset, value) ==
    LET hr == m.hregs IN
    CASE offset = \h00 ->
            [m EXCEPT !.hregs.nmi_enabled = Bit(value, 7) = 1,
                      !.hregs.auto_read_enabled = Bit(value, 0) = 1,
                      !.hregs.irq_enabled =
                          CASE (value \div 16) % 4 = 1 -> "MatchColumn"
                            [] (value \div 16) % 4 = 2 -> "MatchRow"
                            [] (value \div 16) % 4 = 3 -> "MatchRowAndColumn"
                            [] OTHER -> "Never"]
      [] offset = \h01 ->
            [m EXCEPT !.hregs.io_value = value,
                      !.hregs.io_triggered =
                          IF Bit(hr.io_value, 7) = 1 /\ Bit(value, 7) = 0 THEN TRUE ELSE @]
      [] offset = \h02 -> [m EXCEPT !.hregs.multiplication_lhs = value]
      [] offset = \h03 ->
            [m EXCEPT !.hregs.multiplication_result = hr.multiplication_lhs * value]
      [] offset = \h04 -> [m EXCEPT !.hregs.division_lhs = SetLower(@, value)]
      [] offset = \h05 -> [m EXCEPT !.hregs.division_lhs = SetUpper(@, value)]
      [] offset = \h06 ->
            [m EXCEPT !.hregs.division_result = Division(hr.division_lhs, value).result,
                      !.hregs.multiplication_result =
                          Division(hr.division_lhs, value).remainder]
      [] offset = \h07 -> [m EXCEPT !.hregs.irq_column = SetLower(@, value)]
      [] offset = \h08 -> [m EXCEPT !.hregs.irq_column = SetUpper(@, value % 2)]
      [] offset = \h09 -> [m EXCEPT !.hregs.irq_row = SetLower(@, value)]
      [] offset = \h0A -> [m EXCEPT !.hregs.irq_row = SetUpper(@, value % 2)]
      [] offset = \h0B ->
            [m EXCEPT !.hregs.dma_channel_mask = value,
                      !.hregs.cpu_action = IF value # 0 THEN @ \cup {DMA} ELSE @]
      [] OTHER -> m

\* DmaChannel as HardwareBus: read
DmaRead(ch, offset) ==
    CASE offset = 0 -> ch.raw_control_value
      [] offset = 1 -> Lower(ch.destination)
      [] offset = 2 -> Lower(ch.source.offset)
      [] offset = 3 -> Upper(ch.source.offset)
      [] offset = 4 -> ch.source.bank
      [] offset = 5 -> Lower(ch.hdma_indirect_address.offset)
      [] offset = 6 -> Upper(ch.hdma_indirect_address.offset)
      [] offset = 7 -> ch.hdma_indirect_address.bank
      [] offset = 8 -> Lower(ch.hdma_table_address.offset)
      [] offset = 9 -> Upper(ch.hdma_table_address.offset)
      [] offset = 10 -> IF ch.hdma_line_counter.repeat
                        THEN W8(128 + ch.hdma_line_counter.count)
                        ELSE ch.hdma_line_counter.count
      [] OTHER -> 0

\* DmaChannel as HardwareBus: write
DmaWrite(ch, offset, value) ==
    CASE offset = 0 ->
            [ch EXCEPT !.reverse_transfer = Bit(value, 7) = 1,
                       !.hdma_indirect_mode = Bit(value, 6) = 1,
                       !.increment_type =
                           CASE (value \div 8) % 4 = 0 -> "Increment"
                             [] (value \div 8) % 4 = 2 -> "Decrement"
                             [] OTHER -> "Fixed",
                       !.transfer_mode =
                           CASE value % 8 = 0 -> "A"
                             [] value % 8 = 1 -> "AB"
                             [] value % 8 \in {2, 6} -> "AA"
                             [] value % 8 \in {3, 7} -> "AABB"
                             [] value % 8 = 4 -> "ABCD"
                             [] OTHER -> "ABAB",
                       !.raw_control_value = value]
      [] offset = 1 -> [ch EXCEPT !.destination = SetLower(@, value)]
      [] offset = 2 -> [ch EXCEPT !.source.offset = SetLower(@, value)]
      [] offset = 3 -> [ch EXCEPT !.source.offset = SetUpper(@, value)]
      [] offset = 4 -> [ch EXCEPT !.source.bank = value]
      [] offset = 5 -> [ch EXCEPT !.hdma_indirect_address.offset = SetLower(@, value)]
      [] offset = 6 -> [ch EXCEPT !.hdma_indirect_address.offset = SetUpper(@, value)]
      [] offset = 7 -> [ch EXCEPT !.hdma_indirect_address.bank = value]
      [] offset = 8 -> [ch EXCEPT !.hdma_table_address.offset = SetLower(@, value)]
      [] offset = 9 -> [ch EXCEPT !.hdma_table_address.offset = SetUpper(@, value)]
      [] offset = 10 ->
            [ch EXCEPT !.hdma_line_counter =
                IF Bit(W8(value - 1), 7) = 1
                THEN [repeat |-> TRUE, count |-> W8(value - 128)]
                ELSE [repeat |-> FALSE, count |-> value]]
      [] OTHER -> ch

\* Wram as HardwareBus (the $2180 port): read
WramPortRead(m, offset) ==
    IF offset = 0
    THEN [m EXCEPT !.v = Peek(m.wram.data, m.wram.address, 0),
                   !.wram.address = (@ + 1) % WRAM_SIZE]
    ELSE [m EXCEPT !.v = 0]

\* a port whose third cursor register takes the whole byte written to it
WramPortWriteWholeByte(m, offset, value) ==
    CASE offset = 0 ->
            [m EXCEPT !.wram.data = Poke(@, m.wram.address, value),
                      !.wram.address = (@ + 1) % WRAM_SIZE]
      [] offset = 1 -> [m EXCEPT !.wram.address = (@ \div 256) * 256 + value]
      [] offset = 2 ->
            [m EXCEPT !.wram.address = (@ \div 65536) * 65536 + value * 256 + (@ % 256)]
      [] offset = 3 -> [m EXCEPT !.wram.address = value * 65536 + (@ % 65536)]
      [] OTHER -> m

\* Wram as HardwareBus (the $2180 port): write
WramPortWrite(m, offset, value) ==
    CASE offset = 0 ->
            [m EXCEPT !.wram.data = Poke(@, m.wram.address, value),
                      !.wram.address = (@ + 1) % WRAM_SIZE]
      [] offset = 1 -> [m EXCEPT !.wram.address = (@ \div 256) * 256 + value]
      [] offset = 2 ->
            [m EXCEPT !.wram.address = (@ \div 65536) * 65536 + value * 256 + (@ % 256)]
      [] offset = 3 -> [m EXCEPT !.wram.address = (value % 2) * 65536 + (@ % 65536)]
      [] OTHER -> m

\* Ppu as HardwareBus: write.  Only the register that feeds the dot clock
\* is kept; the picture registers are outside the model.
PpuWrite(m, offset, value) ==
    IF offset = \h33 THEN [m EXCEPT !.ppu.overscan_buffer = Bit(value, 2) = 1] ELSE m

\* MemoryLocation::read on the routed bus
LocRead(m, loc) ==
    CASE loc.bus = "wram_data" -> [m EXCEPT !.v = Peek(m.wram.data, loc.offset, 0)]
      [] loc.bus = "rom" ->
            IF loc.offset < m.rom.size
            THEN [m EXCEPT !.v = Peek(m.rom.data, loc.offset, m.rom.fill)]
            ELSE Panic([m EXCEPT !.v = 0], "index")
      [] loc.bus = "sram" ->
            IF m.rom.sram_size > 0
            THEN [m EXCEPT !.v = Peek(m.sram, loc.offset % m.rom.sram_size, 0)]
            ELSE [m EXCEPT !.v = 0]
      [] loc.bus = "wram" -> WramPortRead(m, loc.offset)
      [] loc.bus = "regs" -> RegsRead(m, loc.offset)
      [] loc.bus = "dma" -> [m EXCEPT !.v = DmaRead(m.dma[loc.index], loc.offset)]
      [] OTHER -> [m EXCEPT !.v = 0]

\* MemoryLocation::write on the routed bus
LocWrite(m, loc, value) ==
    CASE loc.bus = "wram_data" -> [m EXCEPT !.wram.data = Poke(@, loc.offset, value)]
      [] loc.bus = "sram" ->
            IF m.rom.sram_size > 0
            THEN [m EXCEPT !.sram = Poke(@, loc.offset % m.rom.sram_size, value)]
            ELSE m
      [] loc.bus = "wram" -> WramPortWrite(m, loc.offset, value)
      [] loc.bus = "regs" -> RegsWrite(m, loc.offset, value)
      [] loc.bus = "dma" -> [m EXCEPT !.dma[loc.index] = DmaWrite(@, loc.offset, value)]
      [] loc.bus = "ppu" -> PpuWrite(m, loc.offset, value)
      [] OTHER -> m

\* the bus accesses of the running tick, most recent LogCap of them
Logged(m, rw, bank, offset, value, cycles) ==
    LET e == [rw |-> rw, bank |-> bank, offset |-> offset, value |-> value]
        l == Append(m.obs.log, e)
    IN  [m EXCEPT !.obs.log = IF Len(l) > LogCap THEN Tail(l) ELSE l,
                  !.obs.stamps = IF Len(l) > LogCap THEN Append(Tail(@), m.clock)
                                 ELSE Append(@, m.clock),
                  !.obs.reads = IF rw = "r" THEN @ + 1 ELSE @,
                  !.obs.writes = IF rw = "w" THEN @ + 1 ELSE @,
                  !.obs.bus_cycles = @ + cycles]

\* Hardware::read_u8: route, read, then advance the clock by the region's cost
ReadU8(m, bank, offset) ==
    LET cost(x, cycles) ==
            IF x.fault # "none" THEN x
            ELSE HwTick(Logged(x, "r", bank, offset, x.v, cycles), cycles)
        at(loc) == cost(LocRead(m, loc), loc.cycles)
    IN  IF m.fault # "none" THEN [m EXCEPT !.v = 0]
        ELSE at(ByteAt(m.rom.mode, bank, offset))

\* Hardware::write_u8
WriteU8(m, bank, offset, value) ==
    LET at(loc) == HwTick(Logged(LocWrite(m, loc, value), "w", bank, offset, value,
                                 loc.cycles), loc.cycles)
    IN  IF m.fault # "none" THEN m
        ELSE at(ByteAt(m.rom.mode, bank, offset))

\* MemoryAccess::read for u8, u16 and HardwareAddress: bytes k .. n-1 of an
\* n-byte value, low byte first, gathered in .v
RECURSIVE ReadBytes(_, _, _, _, _)
ReadBytes(m, bank, offset, n, k) ==
    LET gather(x) == [x EXCEPT !.v = m.v + x.v * (256 ^ k)]
    IN  IF k = n THEN m
        ELSE ReadBytes(gather(ReadU8(m, bank, W16(offset + k))), bank, offset, n, k + 1)

\* MemoryAccess::write for u8 and u16: bytes k .. n-1, low byte first
RECURSIVE WriteBytes(_, _, _, _, _, _)
WriteBytes(m, bank, offset, value, n, k) ==
    IF k = n THEN m
    ELSE WriteBytes(WriteU8(m, bank, W16(offset + k), (value \div (256 ^ k)) % 256),
                    bank, offset, value, n, k + 1)

\* a read whose 16-bit form fetches the high byte before the low one
ReadTHighFirst(m, size, bank, offset) ==
    LET join(x, high) == [x EXCEPT !.v = x.v + 256 * high]
        low(x) == join(ReadU8(x, bank, offset), x.v)
    IN  IF size = 2 THEN low(ReadU8(m, bank, W16(offset + 1)))
        ELSE ReadBytes([m EXCEPT !.v = 0], bank, offset, size, 0)

\* read or write of a value of `size` bytes (the generic T: MemoryAccess)
ReadT(m, size, bank, offset) == ReadBytes([m EXCEPT !.v = 0], bank, offset, size, 0)
WriteT(m, size, bank, offset, value) == WriteBytes(m, bank, offset, value, size, 0)

\* MemoryAccess for HardwareAddress: read (offset in .v, bank in .vb)
ReadAddr(m, bank, offset) ==
    LET split(x) == [x EXCEPT !.v = x.v % 65536, !.vb = x.v \div 65536]
    IN  split(ReadT(m, 3, bank, offset))

(* --------------------------------- CPU --------------------------------- *)
\* Cpu::io_cycle
IoCycle(m) == IF m.fault # "none" THEN m ELSE HwTick(m, IO_CYCLES)

\* Cpu::direct_page_cycle
DirectPageCycle(m) == IF m.regs.direct_page % 256 # 0 THEN IoCycle(m) ELSE m

\* Cpu::read_next::<T>
ReadNext(m, size) ==
    LET advance(x) == [x EXCEPT !.regs.program_counter = W16(@ + size)]
    IN  advance(ReadT(m, size, m.regs.program_bank, m.regs.program_counter))

\* Cpu::read_next::<HardwareAddress>
ReadNextAddr(m) ==
    LET advance(x) == [x EXCEPT !.regs.program_counter = W16(@ + 3)]
    IN  advance(ReadAddr(m, m.regs.program_bank, m.regs.program_counter))

\* a push that stores at the decremented pointer itself
PushValueAtPointer(m, size, value) ==
    LET sp == W16(m.regs.stack_pointer - size)
    IN  WriteT([m EXCEPT !.regs.stack_pointer = sp], size, 0, sp, value)

\* macro push_value!
PushValue(m, size, value) ==
    LET sp == W16(m.regs.stack_pointer - size)
    IN  WriteT([m EXCEPT !.regs.stack_pointer = sp], size, 0, W16(sp + 1), value)

\* Cpu::pull_value::<T>
PullValue(m, size) ==
    LET advance(x) == [x EXCEPT !.regs.stack_pointer = W16(@ + size)]
    IN  advance(ReadT(m, size, 0, W16(m.regs.stack_pointer + 1)))

\* Value::is_negative at the operand size
IsNegative(value, size) == Bit(value, 8 * size - 1) = 1

\* Cpu::set_zero_and_negative
SetZeroAndNegative(m, value, size) ==
    [m EXCEPT !.flags.zero = value = 0, !.flags.negative = IsNegative(value, size)]

B2N(b) == IF b THEN 1 ELSE 0

\* a status read whose bits 5 and 4 are the width flags in both modes
ProcessorStateGetWidths(f) ==
    128 * B2N(f.negative) + 64 * B2N(f.overflow) + 32 * B2N(f.memory_size)
    + 16 * B2N(f.index_size) + 8 * B2N(f.decimal_mode)
    + 4 * B2N(f.interrupt_disable) + 2 * B2N(f.zero) + B2N(f.carry)

\* Read<u8> for ProcessorState
ProcessorStateGet(f) ==
    IF f.emulation_mode
    THEN 128 * B2N(f.negative) + 64 * B2N(f.overflow) + 32 * B2N(f.unused_flag)
         + 16 * B2N(f.break_flag) + 8 * B2N(f.decimal_mode)
         + 4 * B2N(f.interrupt_disable) + 2 * B2N(f.zero) + B2N(f.carry)
    ELSE 128 * B2N(f.negative) + 64 * B2N(f.overflow) + 32 * B2N(f.memory_size)
         + 16 * B2N(f.index_size) + 8 * B2N(f.decimal_mode)
         + 4 * B2N(f.interrupt_disable) + 2 * B2N(f.zero) + B2N(f.carry)

\* a status write that leaves the index registers as they are
ProcessorStateSetKeepingIndex(m, value) ==
    LET f1 == [m.flags EXCEPT !.negative = Bit(value, 7) = 1,
                              !.overflow = Bit(value, 6) = 1,
                              !.decimal_mode = Bit(value, 3) = 1,
                              !.interrupt_disable = Bit(value, 2) = 1,
                              !.zero = Bit(value, 1) = 1,
                              !.carry = Bit(value, 0) = 1]
    IN  [m EXCEPT !.flags =
            IF f1.emulation_mode
            THEN [f1 EXCEPT !.unused_flag = Bit(value, 5) = 1,
                            !.break_flag = Bit(value, 4) = 1]
            ELSE [f1 EXCEPT !.memory_size = Bit(value, 5) = 1,
                            !.index_size = Bit(value, 4) = 1]]

\* Write<u8> for ProcessorState
ProcessorStateSet(m, value) ==
    LET f1 == [m.flags EXCEPT !.negative = Bit(value, 7) = 1,
                              !.overflow = Bit(value, 6) = 1,
                              !.decimal_mode = Bit(value, 3) = 1,
                              !.interrupt_disable = Bit(value, 2) = 1,
                              !.zero = Bit(value, 1) = 1,
                              !.carry = Bit(value, 0) = 1]
        f2 == IF f1.emulation_mode
              THEN [f1 EXCEPT !.unused_flag = Bit(value, 5) = 1,
                              !.break_flag = Bit(value, 4) = 1]
              ELSE [f1 EXCEPT !.memory_size = Bit(value, 5) = 1,
                              !.index_size = Bit(value, 4) = 1]
        truncate_index_regs == ~f1.emulation_mode /\ f2.index_size
    IN  IF truncate_index_regs
        THEN [m EXCEPT !.flags = f2,
                       !.regs.index_x = @ % 256,
                       !.regs.index_y = @ % 256]
        ELSE [m EXCEPT !.flags = f2]

\* the register accessors of register.rs: field of each accessor
RegField(reg) ==
    CASE reg = "A" -> "accumulator"
      [] reg = "X" -> "index_x"
      [] reg = "Y" -> "index_y"
      [] reg = "S" -> "stack_pointer"
      [] reg = "B" -> "data_bank"
      [] reg = "D" -> "direct_page"
      [] reg = "K" -> "program_bank"

\* Read<T>::get for the register accessors (from_modal for A, X, Y, S)
RegGet(m, reg, size) ==
    IF reg = "P" THEN ProcessorStateGet(m.flags)
    ELSE IF reg \in {"A", "X", "Y", "S"} /\ size = 1
         THEN m.regs[RegField(reg)] % 256
         ELSE m.regs[RegField(reg)]

\* a register write that replaces all 16 bits at either width
RegSetWhole(m, reg, size, value) ==
    IF reg = "P" THEN ProcessorStateSet(m, value)
    ELSE [m EXCEPT !.regs[RegField(reg)] = value]

\* Write<T>::set for the register accessors (to_modal for A, X, Y, S)
RegSet(m, reg, size, value) ==
    IF reg = "P" THEN ProcessorStateSet(m, value)
    ELSE IF reg \in {"A", "X", "Y", "S"} /\ size = 1
         THEN [m EXCEPT !.regs[RegField(reg)] = SetLower(@, value)]
         ELSE [m EXCEPT !.regs[RegField(reg)] = value]

\* impl Interrupt for Break / Coprocessor / Irq / Nmi
InterruptTable ==
    [Break |-> [native_vector |-> \hFFE6, emulation_vector |-> \hFFFE,
                has_signature |-> TRUE, set_break |-> TRUE,
                set_interrupt_disable |-> TRUE],
     Coprocessor |-> [native_vector |-> \hFFE5, emulation_vector |-> \hFFF4,
                has_signature |-> TRUE, set_break |-> FALSE,
                set_interrupt_disable |-> TRUE],
     Irq |-> [native_vector |-> \hFFEE, emulation_vector |-> \hFFFE,
                has_signature |-> FALSE, set_break |-> FALSE,
                set_interrupt_disable |-> TRUE],
     Nmi |-> [native_vector |-> \hFFEA, emulation_vector |-> \hFFFA,
                has_signature |-> FALSE, set_break |-> FALSE,
                set_interrupt_disable |-> FALSE]]

\* Cpu::interrupt::<I>
Interrupt(m, kind) ==
    LET I == InterruptTable[kind]
        signature(x) == IF I.has_signature THEN ReadNext(x, 1) ELSE x
        bank(x) == IF x.flags.emulation_mode
                   THEN [x EXCEPT !.flags.break_flag = TRUE]
                   ELSE [PushValue(x, 1, x.regs.program_bank)
                            EXCEPT !.regs.program_bank = 0]
        counter(x) == PushValue(x, 2, x.regs.program_counter)
        break(x) == IF I.set_break THEN [x EXCEPT !.flags.break_flag = TRUE] ELSE x
        state(x) == PushValue(x, 1, ProcessorStateGet(x.flags))
        vector(x) == ReadT(x, 2, 0, IF x.flags.emulation_mode THEN I.emulation_vector
                                    ELSE I.native_vector)
        enter(x) == [x EXCEPT !.regs.program_counter = x.v,
                              !.flags.decimal_mode = FALSE,
                              !.flags.interrupt_disable =
                                  IF I.set_interrupt_disable THEN TRUE ELSE @,
                              !.obs.entry = kind]
    IN  enter(vector(state(break(counter(bank(IoCycle(IoCycle(signature(m)))))))))

(* --------------------------- addressing modes -------------------------- *)
\* AddressMode::resolve: leaves the accessor in .acc
Resolve(m, mode, size) ==
    LET immediate(x) == [x EXCEPT !.acc = [kind |-> "imm", value |-> x.v]]
        absolute(x) == [x EXCEPT !.acc = [kind |-> "mem", bank |-> x.regs.data_bank,
                                          offset |-> x.v]]
        long(x) == [x EXCEPT !.acc = [kind |-> "mem", bank |-> x.vb, offset |-> x.v]]
        indexed_x(x) == [x EXCEPT !.acc = [kind |-> "mem", bank |-> x.regs.data_bank,
                                           offset |-> W16(x.v + x.regs.index_x)]]
        indexed_y(x) == [x EXCEPT !.acc = [kind |-> "mem", bank |-> x.regs.data_bank,
                                           offset |-> W16(x.v + x.regs.index_y)]]
        long_indexed_x(x) == [x EXCEPT !.acc = [kind |-> "mem", bank |-> x.vb,
                                                offset |-> W16(x.v + x.regs.index_x)]]
        long_indexed_y(x) == [x EXCEPT !.acc = [kind |-> "mem", bank |-> x.vb,
                                                offset |-> W16(x.v + x.regs.index_y)]]
        direct_x(x) == [x EXCEPT !.acc =
                           [kind |-> "mem", bank |-> 0,
                            offset |-> W16(W16(x.v + x.regs.direct_page) + x.regs.index_x)]]
        indirect(x) == ReadT(x, 2, 0, W16(x.v + x.regs.direct_page))
        indirect_long(x) == ReadAddr(x, 0, W16(x.v + x.regs.direct_page))
    IN  CASE mode = "Immediate" -> immediate(ReadNext(m, size))
          [] mode = "Accumulator" -> [m EXCEPT !.acc = [kind |-> "reg", reg |-> "A"]]
          [] mode = "Absolute" -> absolute(ReadNext(m, 2))
          [] mode = "AbsoluteIndexedX" -> indexed_x(ReadNext(m, 2))
          [] mode = "AbsoluteIndexedY" -> indexed_y(ReadNext(m, 2))
          [] mode = "AbsoluteLongIndexedX" -> long_indexed_x(ReadNextAddr(m))
          [] mode = "DirectPageIndexedX" -> direct_x(DirectPageCycle(ReadNext(m, 1)))
          [] mode = "DirectPageIndirectIndexedY" ->
                indexed_y(indirect(DirectPageCycle(ReadNext(m, 1))))
          [] mode = "DirectPageIndirectLongIndexedY" ->
                long_indexed_y(indirect_long(DirectPageCycle(ReadNext(m, 1))))
          [] mode = "AbsoluteLong" -> long(ReadNextAddr(m))

\* Read<T>::get of MemoryAccessor / ImmediateAccessor
AccGet(m, size) ==
    IF m.acc.kind = "imm" THEN [m EXCEPT !.v = m.acc.value]
    ELSE IF m.acc.kind = "reg" THEN [m EXCEPT !.v = RegGet(m, m.acc.reg, size)]
    ELSE ReadT(m, size, m.acc.bank, m.acc.offset)

\* Write<T>::set of MemoryAccessor and of the register accessors
AccSet(m, size, value) ==
    IF m.acc.kind = "reg" THEN RegSet(m, m.acc.reg, size, value)
    ELSE WriteT(m, size, m.acc.bank, m.acc.offset, value)

(* ----------------------------- instructions ---------------------------- *)
\* `result < lhs` as written in add_with_carry
AdcCarry(lhs, rhs, carry, result, size) == result < lhs

\* Cpu::add_with_carry
add_with_carry(m, size, mode) ==
    LET add(x) ==
            LET lhs == RegGet(x, "A", size)
                rhs == x.v
                w == 2 ^ (8 * size)
                result == (((lhs + rhs) % w) + B2N(x.flags.carry)) % w
                overflow == IsNegative(BitAnd(BitNot(BitXor(lhs, rhs), 8 * size),
                                              BitXor(rhs, result)), size)
            IN  IF x.fault # "none" THEN x
                ELSE IF x.flags.decimal_mode THEN Panic(x, "decimal")
                ELSE SetZeroAndNegative(
                        [RegSet(x, "A", size, result)
                            EXCEPT !.flags.carry =
                                       AdcCarry(lhs, rhs, x.flags.carry, result, size),
                                   !.flags.overflow = overflow],
                        result, size)
    IN  add(AccGet(Resolve(m, mode, size), size))

\* `result <= lhs` as written in subtract_with_carry
SbcCarry(lhs, rhs, carry, result, size) == result <= lhs

\* Cpu::subtract_with_carry
subtract_with_carry(m, size, mode) ==
    LET subtract(x) ==
            LET lhs == RegGet(x, "A", size)
                rhs == x.v
                w == 2 ^ (8 * size)
                result == (((lhs - rhs) % w) - B2N(~x.flags.carry)) % w
                overflow == IsNegative(BitAnd(BitXor(lhs, rhs), BitXor(lhs, result)),
                                       size)
            IN  IF x.fault # "none" THEN x
                ELSE IF x.flags.decimal_mode THEN Panic(x, "decimal")
                ELSE SetZeroAndNegative(
                        [RegSet(x, "A", size, result)
                            EXCEPT !.flags.carry =
                                       SbcCarry(lhs, rhs, x.flags.carry, result, size),
                                   !.flags.overflow = overflow],
                        result, size)
    IN  subtract(AccGet(Resolve(m, mode, size), size))

\* Cpu::store
store(m, reg, size, mode) ==
    LET set(x) == AccSet(x, size, RegGet(x, reg, size))
    IN  set(Resolve(m, mode, size))

\* Cpu::and, Cpu::or, Cpu::exclusive_or: the accumulator combined with the operand
and(m, size, mode) ==
    LET set(x, result) == SetZeroAndNegative(RegSet(x, "A", size, result), result, size)
        combine(x) == IF x.fault # "none" THEN x
                      ELSE set(x, BitAnd(RegGet(x, "A", size), x.v))
    IN  combine(AccGet(Resolve(m, mode, size), size))

or(m, size, mode) ==
    LET set(x, result) == SetZeroAndNegative(RegSet(x, "A", size, result), result, size)
        combine(x) == IF x.fault # "none" THEN x
                      ELSE set(x, BitOr(RegGet(x, "A", size), x.v))
    IN  combine(AccGet(Resolve(m, mode, size), size))

exclusive_or(m, size, mode) ==
    LET set(x, result) == SetZeroAndNegative(RegSet(x, "A", size, result), result, size)
        combine(x) == IF x.fault # "none" THEN x
                      ELSE set(x, BitXor(RegGet(x, "A", size), x.v))
    IN  combine(AccGet(Resolve(m, mode, size), size))

\* Cpu::arithmetic_shift_left with Value::left_shift_value
arithmetic_shift_left(m, size, mode) ==
    LET put(x, value, c) ==
            SetZeroAndNegative([AccSet(IoCycle(x), size, value) EXCEPT !.flags.carry = c],
                               value, size)
        change(x) == IF x.fault # "none" THEN x
                     ELSE put(x, (2 * x.v) % (2 ^ (8 * size)), IsNegative(x.v, size))
    IN  change(AccGet(Resolve(m, mode, size), size))

\* Cpu::logical_shift_right with Value::right_shift_value
logical_shift_right(m, size, mode) ==
    LET put(x, value, c) ==
            SetZeroAndNegative([AccSet(IoCycle(x), size, value) EXCEPT !.flags.carry = c],
                               value, size)
        change(x) == IF x.fault # "none" THEN x
                     ELSE put(x, x.v \div 2, x.v % 2 = 1)
    IN  change(AccGet(Resolve(m, mode, size), size))

\* Cpu::rotate_left with Value::left_rotate_value
rotate_left(m, size, mode) ==
    LET put(x, value, c) ==
            SetZeroAndNegative([AccSet(IoCycle(x), size, value) EXCEPT !.flags.carry = c],
                               value, size)
        change(x) == IF x.fault # "none" THEN x
                     ELSE put(x, ((2 * x.v) % (2 ^ (8 * size))) + B2N(x.flags.carry), IsNegative(x.v, size))
    IN  change(AccGet(Resolve(m, mode, size), size))

\* Cpu::rotate_right with Value::right_rotate_value
rotate_right(m, size, mode) ==
    LET put(x, value, c) ==
            SetZeroAndNegative([AccSet(IoCycle(x), size, value) EXCEPT !.flags.carry = c],
                               value, size)
        change(x) == IF x.fault # "none" THEN x
                     ELSE put(x, (B2N(x.flags.carry) * (2 ^ (8 * size - 1))) + (x.v \div 2), x.v % 2 = 1)
    IN  change(AccGet(Resolve(m, mode, size), size))

\* Cpu::increment: add_value(1), the carry untouched
increment(m, size, mode) ==
    LET put(x, value) == SetZeroAndNegative(AccSet(IoCycle(x), size, value), value, size)
        change(x) == IF x.fault # "none" THEN x
                     ELSE put(x, (x.v + 1) % (2 ^ (8 * size)))
    IN  change(AccGet(Resolve(m, mode, size), size))

\* Cpu::decrement: subtract_value(1), the carry untouched
decrement(m, size, mode) ==
    LET put(x, value) == SetZeroAndNegative(AccSet(IoCycle(x), size, value), value, size)
        change(x) == IF x.fault # "none" THEN x
                     ELSE put(x, (x.v - 1) % (2 ^ (8 * size)))
    IN  change(AccGet(Resolve(m, mode, size), size))

\* a comparison whose carry is a strict inequality
compare_strictly(m, reg, size, mode) ==
    LET flag(x, lhs, result) ==
            SetZeroAndNegative([x EXCEPT !.flags.carry = result < lhs], result, size)
        test(x) == IF x.fault # "none" THEN x
                   ELSE flag(x, RegGet(x, reg, size),
                             (RegGet(x, reg, size) - x.v) % (2 ^ (8 * size)))
    IN  test(AccGet(Resolve(m, mode, size), size))

\* Cpu::compare
compare(m, reg, size, mode) ==
    LET flag(x, lhs, result) ==
            SetZeroAndNegative([x EXCEPT !.flags.carry = result <= lhs], result, size)
        test(x) == IF x.fault # "none" THEN x
                   ELSE flag(x, RegGet(x, reg, size),
                             (RegGet(x, reg, size) - x.v) % (2 ^ (8 * size)))
    IN  test(AccGet(Resolve(m, mode, size), size))

\* Cpu::transfer between registers
transfer(m, src, dst, size) ==
    LET set(x, value) == SetZeroAndNegative(RegSet(x, dst, size, value), value, size)
    IN  set(IoCycle(m), RegGet(m, src, size))

\* Cpu::bit_test
bit_test(m, size, mode) ==
    LET test(x) ==
            IF x.fault # "none" THEN x
            ELSE [x EXCEPT !.flags.negative = IsNegative(x.v, size),
                           !.flags.overflow = Bit(x.v, 8 * size - 2) = 1,
                           !.flags.zero = BitAnd(RegGet(x, "A", size), x.v) = 0]
    IN  test(AccGet(Resolve(m, mode, size), size))

\* a displacement taken as unsigned
AsU8(value) == value

\* `as i8` on the displacement byte
AsI8(value) == IF value >= 128 THEN value - 256 ELSE value

\* Cpu::branch: should_branch
ShouldBranch(condition, f) ==
    CASE condition = "CarrySet" -> f.carry
      [] condition = "CarryClear" -> ~f.carry
      [] condition = "Equal" -> f.zero
      [] condition = "NotEqual" -> ~f.zero
      [] condition = "Minus" -> f.negative
      [] condition = "Plus" -> ~f.negative
      [] condition = "OverflowSet" -> f.overflow
      [] condition = "OverflowClear" -> ~f.overflow
      [] condition = "Always" -> TRUE

\* Cpu::branch
branch(m, condition) ==
    LET jump(x) == [x EXCEPT !.regs.program_counter = W16(@ + AsI8(x.v))]
        decide(x) == IF x.fault # "none" THEN x
                     ELSE IF ShouldBranch(condition, x.flags) THEN IoCycle(jump(x))
                     ELSE x
    IN  decide(ReadNext(m, 1))

\* a load that charges an internal cycle
load_with_io_cycle(m, reg, size, mode) ==
    LET set(x) == IF x.fault # "none" THEN x
                  ELSE IoCycle(SetZeroAndNegative(RegSet(x, reg, size, x.v), x.v, size))
    IN  set(AccGet(Resolve(m, mode, size), size))

\* Cpu::load
load(m, reg, size, mode) ==
    LET set(x) == IF x.fault # "none" THEN x
                  ELSE SetZeroAndNegative(RegSet(x, reg, size, x.v), x.v, size)
    IN  set(AccGet(Resolve(m, mode, size), size))

\* Cpu::push
push(m, reg, size) ==
    LET value(x) == PushValue(x, size, RegGet(x, reg, size))
    IN  value(IoCycle(m))

\* Cpu::pull
pull(m, reg, size) ==
    LET set(x) == RegSet(SetZeroAndNegative(x, x.v, size), reg, size, x.v)
    IN  set(PullValue(IoCycle(IoCycle(m)), size))

\* `program_counter - 1` on a u16: aborts on underflow when the build checks
\* arithmetic overflow, wraps otherwise
ReturnAddress(pc) == W16(pc - 1)

\* `pull_value::<u16>() + 1` on a u16, wrapping when unchecked
ResumeAddress(value) == W16(value + 1)

\* Cpu::jump_to_subroutine
jump_to_subroutine(m, mode) ==
    LET call(x) ==
            IF x.fault # "none" THEN x
            ELSE IF x.overflow_checks /\ x.regs.program_counter = 0
            THEN Panic(x, "overflow")
            ELSE [PushValue(x, 2, ReturnAddress(x.regs.program_counter))
                    EXCEPT !.regs.program_counter = x.acc.offset]
    IN  call(Resolve(m, mode, 2))

\* Cpu::jump_to_subroutine_long
jump_to_subroutine_long(m, mode) ==
    LET bank(x) == PushValue(x, 1, x.regs.program_bank)
        call(x) ==
            IF x.fault # "none" THEN x
            ELSE IF x.overflow_checks /\ x.regs.program_counter = 0
            THEN Panic(x, "overflow")
            ELSE [PushValue(x, 2, ReturnAddress(x.regs.program_counter))
                    EXCEPT !.regs.program_bank = x.acc.bank,
                           !.regs.program_counter = x.acc.offset]
    IN  call(bank(IoCycle(Resolve(m, mode, 2))))

\* Cpu::return_from_interrupt
return_from_interrupt(m) ==
    LET state(x) == ProcessorStateSet(x, x.v)
        counter(x) == [x EXCEPT !.regs.program_counter = x.v]
        set(x) == [x EXCEPT !.regs.program_bank = x.v]
        bank(x) == IF ~x.flags.emulation_mode THEN set(PullValue(x, 1)) ELSE x
    IN  bank(counter(PullValue(state(PullValue(IoCycle(IoCycle(m)), 1)), 2)))

\* Cpu::return_from_subroutine
return_from_subroutine(m) ==
    LET resume(x) ==
            IF x.fault # "none" THEN x
            ELSE IF x.overflow_checks /\ x.v = \hFFFF THEN Panic(x, "overflow")
            ELSE IoCycle([x EXCEPT !.regs.program_counter = ResumeAddress(x.v)])
    IN  resume(PullValue(IoCycle(IoCycle(m)), 2))

\* Cpu::return_from_subroutine_long
return_from_subroutine_long(m) ==
    LET set(x) == IF x.fault # "none" THEN x ELSE [x EXCEPT !.regs.program_bank = x.v]
        resume(x) ==
            IF x.fault # "none" THEN x
            ELSE IF x.overflow_checks /\ x.v = \hFFFF THEN Panic(x, "overflow")
            ELSE set(PullValue([x EXCEPT !.regs.program_counter = ResumeAddress(x.v)],
                               1))
    IN  resume(PullValue(IoCycle(IoCycle(m)), 2))

\* an XCE that swaps the two bits and leaves the width flags alone
exchange_keeping_widths(m) ==
    IoCycle([m EXCEPT !.flags.carry = m.flags.emulation_mode,
                      !.flags.emulation_mode = m.flags.carry])

\* Cpu::exchange_carry_and_emulation_bits
exchange_carry_and_emulation_bits(m) ==
    IoCycle([m EXCEPT !.flags.carry = m.flags.emulation_mode,
                      !.flags.emulation_mode = m.flags.carry,
                      !.flags.memory_size = TRUE,
                      !.flags.index_size = TRUE])

\* Cpu::reset_processor_state
reset_processor_state(m) ==
    LET clear(x) ==
            IF x.fault # "none" THEN x
            ELSE IoCycle(ProcessorStateSet(
                    x, BitAnd(ProcessorStateGet(x.flags), BitNot(x.v, 8))))
    IN  clear(ReadNext(m, 1))

\* a SEP that also clears the upper byte of A when it sets M
set_processor_state_narrowing(m) ==
    LET narrow(x) == IF ~x.flags.emulation_mode /\ x.flags.memory_size
                     THEN [x EXCEPT !.regs.accumulator = @ % 256] ELSE x
        set(x) ==
            IF x.fault # "none" THEN x
            ELSE IoCycle(narrow(ProcessorStateSet(
                    x, BitOr(ProcessorStateGet(x.flags), x.v))))
    IN  set(ReadNext(m, 1))

\* Cpu::set_processor_state
set_processor_state(m) ==
    LET set(x) ==
            IF x.fault # "none" THEN x
            ELSE IoCycle(ProcessorStateSet(
                    x, BitOr(ProcessorStateGet(x.flags), x.v)))
    IN  set(ReadNext(m, 1))

\* a block move that repeats until A reaches zero
BlockMoveRepeatsUntilZero(accumulator) == accumulator # 0

\* `self.regs.accumulator != 0xFFFF` in move_block
BlockMoveRepeats(accumulator) == accumulator # \hFFFF

\* Cpu::move_block
move_block(m, block_move) ==
    LET first(x) == [x EXCEPT !.vb = x.v]
        banks(x) == [x EXCEPT !.acc = [kind |-> "move", dst_bank |-> x.vb,
                                       src_bank |-> x.v]]
        copy(x) == WriteU8(x, x.acc.dst_bank, x.regs.index_y, x.v)
        step(x) ==
            IF block_move = "Negative"
            THEN [x EXCEPT !.regs.index_x = W16(@ + 1),
                           !.regs.index_y = W16(@ + 1)]
            ELSE [x EXCEPT !.regs.index_x = W16(@ - 1),
                           !.regs.index_y = W16(W16(x.regs.index_x - 1) - 1)]
        count(x) == [x EXCEPT !.regs.accumulator = W16(@ - 1)]
        repeat(x) ==
            IF BlockMoveRepeats(x.regs.accumulator)
            THEN [x EXCEPT !.regs.program_counter = W16(@ - 3)]
            ELSE x
        rest(x) ==
            IF x.fault # "none" THEN x
            ELSE repeat(IoCycle(IoCycle(count(step(x)))))
        source(x) == ReadU8(x, x.acc.src_bank, x.regs.index_x)
    IN  rest(copy(source(banks(ReadNext(first(ReadNext(m, 1)), 1)))))

\* a STP that completes like a NOP
stop_without_abort(m) == IoCycle(m)

\* Cpu::stop
stop(m) == Panic(m, "stopped")

\* Cpu::wait_for_interrupt
wait_for_interrupt(m) == Panic(m, "wait")

\* the operand size chosen by memory_size! / index_size!
MemorySize(m) == IF m.flags.memory_size THEN 1 ELSE 2
IndexSize(m) == IF m.flags.index_size THEN 1 ELSE 2

\* the opcodes of the dispatch table in Cpu::tick that the model executes
Opcodes ==
    {\h00, \h02, \h08, \h09, \h0A, \h0B, \h10, \h18, \h1A, \h1B, \h20, \h22, \h28,
     \h29, \h2A, \h2B, \h2C, \h30, \h38, \h3A, \h3B, \h40, \h44, \h48, \h49, \h4A,
     \h4B, \h50, \h54, \h58, \h5A, \h5B, \h60, \h68, \h69, \h6A, \h6B, \h6D, \h70,
     \h78, \h7A, \h7B, \h80, \h89, \h8A, \h8B, \h8D, \h8E, \h8F, \h90, \h98, \h9A,
     \h9B, \h9D, \h9F, \hA8, \hA9, \hAA, \hAB, \hAD, \hB0, \hB1, \hB5, \hB7, \hB9,
     \hBA, \hBB, \hBD, \hBF, \hC0, \hC2, \hC9, \hCB, \hCD, \hD0, \hDA, \hDB, \hE0,
     \hE2, \hE9, \hEA, \hEC, \hED, \hF0, \hFA, \hFB}

\* the match on the opcode in Cpu::tick
Execute(m, op) ==
    CASE op = \h00 -> Interrupt(m, "Break")
      [] op = \h02 -> Interrupt(m, "Coprocessor")
      [] op = \h08 -> push(m, "P", 1)
      [] op = \h09 -> or(m, MemorySize(m), "Immediate")
      [] op = \h0A -> arithmetic_shift_left(m, MemorySize(m), "Accumulator")
      [] op = \h0B -> push(m, "D", 2)
      [] op = \h10 -> branch(m, "Plus")
      [] op = \h18 -> IoCycle([m EXCEPT !.flags.carry = FALSE])
      [] op = \h1A -> increment(m, MemorySize(m), "Accumulator")
      [] op = \h1B -> transfer(m, "A", "S", 2)
      [] op = \h20 -> jump_to_subroutine(m, "Absolute")
      [] op = \h22 -> jump_to_subroutine_long(m, "AbsoluteLong")
      [] op = \h28 -> pull(m, "P", 1)
      [] op = \h29 -> and(m, MemorySize(m), "Immediate")
      [] op = \h2A -> rotate_left(m, MemorySize(m), "Accumulator")
      [] op = \h2B -> pull(m, "D", 2)
      [] op = \h2C -> bit_test(m, MemorySize(m), "Absolute")
      [] op = \h30 -> branch(m, "Minus")
      [] op = \h38 -> IoCycle([m EXCEPT !.flags.carry = TRUE])
      [] op = \h3A -> decrement(m, MemorySize(m), "Accumulator")
      [] op = \h3B -> transfer(m, "S", "A", 2)
      [] op = \h40 -> return_from_interrupt(m)
      [] op = \h44 -> move_block(m, "Positive")
      [] op = \h48 -> push(m, "A", MemorySize(m))
      [] op = \h49 -> exclusive_or(m, MemorySize(m), "Immediate")
      [] op = \h4A -> logical_shift_right(m, MemorySize(m), "Accumulator")
      [] op = \h4B -> push(m, "K", 1)
      [] op = \h50 -> branch(m, "OverflowClear")
      [] op = \h54 -> move_block(m, "Negative")
      [] op = \h58 -> IoCycle([m EXCEPT !.flags.interrupt_disable = FALSE])
      [] op = \h5A -> push(m, "Y", IndexSize(m))
      [] op = \h5B -> transfer(m, "A", "D", 2)
      [] op = \h60 -> return_from_subroutine(m)
      [] op = \h68 -> pull(m, "A", MemorySize(m))
      [] op = \h69 -> add_with_carry(m, MemorySize(m), "Immediate")
      [] op = \h6A -> rotate_right(m, MemorySize(m), "Accumulator")
      [] op = \h6B -> return_from_subroutine_long(m)
      [] op = \h6D -> add_with_carry(m, MemorySize(m), "Absolute")
      [] op = \h70 -> branch(m, "OverflowSet")
      [] op = \h78 -> IoCycle([m EXCEPT !.flags.interrupt_disable = TRUE])
      [] op = \h7A -> pull(m, "Y", IndexSize(m))
      [] op = \h7B -> transfer(m, "D", "A", 2)
      [] op = \h80 -> branch(m, "Always")
      [] op = \h89 -> bit_test(m, MemorySize(m), "Immediate")
      [] op = \h8A -> transfer(m, "X", "A", MemorySize(m))
      [] op = \h8B -> push(m, "B", 1)
      [] op = \h8D -> store(m, "A", MemorySize(m), "Absolute")
      [] op = \h8E -> store(m, "X", IndexSize(m), "Absolute")
      [] op = \h8F -> store(m, "A", MemorySize(m), "AbsoluteLong")
      [] op = \h90 -> branch(m, "CarryClear")
      [] op = \h98 -> transfer(m, "Y", "A", MemorySize(m))
      [] op = \h9A -> transfer(m, "X", "S", 2)
      [] op = \h9B -> transfer(m, "X", "Y", IndexSize(m))
      [] op = \h9D -> store(m, "A", MemorySize(m), "AbsoluteIndexedX")
      [] op = \h9F -> store(m, "A", MemorySize(m), "AbsoluteLongIndexedX")
      [] op = \hA8 -> transfer(m, "A", "Y", IndexSize(m))
      [] op = \hA9 -> load(m, "A", MemorySize(m), "Immediate")
      [] op = \hAA -> transfer(m, "A", "X", IndexSize(m))
      [] op = \hAB -> pull(m, "B", 1)
      [] op = \hAD -> load(m, "A", MemorySize(m), "Absolute")
      [] op = \hB0 -> branch(m, "CarrySet")
      [] op = \hB1 -> load(m, "A", MemorySize(m), "DirectPageIndirectIndexedY")
      [] op = \hB5 -> load(m, "A", MemorySize(m), "DirectPageIndexedX")
      [] op = \hB7 -> load(m, "A", MemorySize(m), "DirectPageIndirectLongIndexedY")
      [] op = \hB9 -> load(m, "A", MemorySize(m), "AbsoluteIndexedY")
      [] op = \hBA -> transfer(m, "S", "X", IndexSize(m))
      [] op = \hBB -> transfer(m, "Y", "X", IndexSize(m))
      [] op = \hBD -> load(m, "A", MemorySize(m), "AbsoluteIndexedX")
      [] op = \hBF -> load(m, "A", MemorySize(m), "AbsoluteLongIndexedX")
      [] op = \hC0 -> compare(m, "Y", IndexSize(m), "Immediate")
      [] op = \hC2 -> reset_processor_state(m)
      [] op = \hC9 -> compare(m, "A", MemorySize(m), "Immediate")
      [] op = \hCB -> wait_for_interrupt(m)
      [] op = \hCD -> compare(m, "A", MemorySize(m), "Absolute")
      [] op = \hD0 -> branch(m, "NotEqual")
      [] op = \hDA -> push(m, "X", IndexSize(m))
      [] op = \hDB -> stop(m)
      [] op = \hE0 -> compare(m, "X", IndexSize(m), "Immediate")
      [] op = \hE2 -> set_processor_state(m)
      [] op = \hE9 -> subtract_with_carry(m, MemorySize(m), "Immediate")
      [] op = \hEA -> IoCycle(m)
      [] op = \hEC -> compare(m, "X", IndexSize(m), "Absolute")
      [] op = \hED -> subtract_with_carry(m, MemorySize(m), "Absolute")
      [] op = \hF0 -> branch(m, "Equal")
      [] op = \hFA -> pull(m, "X", IndexSize(m))
      [] op = \hFB -> exchange_carry_and_emulation_bits(m)

(* ------------------------------- state --------------------------------- *)
VARIABLES
    regs,             \* Cpu.regs: CpuRegisters
    flags,            \* Cpu.flags: CpuFlags
    hregs,            \* Hardware.regs: HardwareRegs (with its IoPort)
    dma,              \* Hardware.dma_channels
    wram,             \* Hardware.wram: data and the $2180 cursor
    sram,             \* Rom.sram
    ppu,              \* Hardware.ppu: dot clock
    clock,            \* Hardware.clock, master cycles
    rom,              \* Rom: mapping mode and cartridge image (input)
    overflow_checks,  \* whether the build aborts on integer overflow (input)
    fault,            \* "none", or the panic that ended the process
    ctl,              \* where the tick handler stands: idle or inside dma_transfer
    obs,              \* what the running (or last) tick has done so far
    ticks             \* number of ticks started

vars == <<regs, flags, hregs, dma, wram, sram, ppu, clock, rom, overflow_checks,
          fault, ctl, obs, ticks>>

\* the machine the handlers work on
Cur ==
    [regs |-> regs, flags |-> flags, hregs |-> hregs, dma |-> dma, wram |-> wram,
     sram |-> sram, ppu |-> ppu, clock |-> clock, rom |-> rom,
     overflow_checks |-> overflow_checks, fault |-> fault, obs |-> obs,
     v |-> 0, vb |-> 0, acc |-> [kind |-> "none"]]

Commit(m) ==
    /\ regs' = m.regs
    /\ flags' = m.flags
    /\ hregs' = m.hregs
    /\ dma' = m.dma
    /\ wram' = m.wram
    /\ sram' = m.sram
    /\ ppu' = m.ppu
    /\ clock' = m.clock
    /\ fault' = m.fault
    /\ obs' = m.obs
    /\ UNCHANGED <<rom, overflow_checks>>

Idle == [pos |-> "idle"]

\* a tick starts: the observation record is reset
TickStart(m, kind) ==
    [m EXCEPT !.obs =
        [kind |-> kind, opcode |-> -1, entry |-> "none", log |-> <<>>, stamps |-> <<>>,
         reads |-> 0, writes |-> 0, bus_cycles |-> 0,
         cleared |-> {}, mask |-> 0, serviced |-> <<>>,
         moved |-> [i \in 0 .. DMA_CHANNEL_COUNT - 1 |-> 0],
         done |-> FALSE, start |-> m.obs.start,
         pre |-> [regs |-> m.regs, flags |-> m.flags, clock |-> m.clock,
                  cpu_action |-> m.hregs.cpu_action,
                  dma_channel_mask |-> m.hregs.dma_channel_mask,
                  dma |-> m.dma, hregs |-> m.hregs, ppu |-> m.ppu,
                  wram |-> m.wram]]]

\* the tick handler returns
TickEnd(m) == [m EXCEPT !.obs.done = TRUE]

\* a readiness test that overlooks a pending DMA request
cpu_action_ready_without_dma(hr) == hr.cpu_action \ {DMA} # {}

\* HardwareRegs::cpu_action_ready
cpu_action_ready(hr) == hr.cpu_action # {}

\* a check_and_reset that drops every pending action at once
CheckAndResetAll(m, action) ==
    [m EXCEPT !.hregs.cpu_action = {},
              !.obs.cleared = @ \cup {action}]

\* HardwareRegs::check_and_reset_nmi / check_and_reset_irq, taken branch
CheckAndReset(m, action) ==
    [m EXCEPT !.hregs.cpu_action = @ \ {action},
              !.obs.cleared = @ \cup {action}]

\* HardwareRegs::check_and_reset_dma, taken branch
CheckAndResetDma(m) ==
    [m EXCEPT !.hregs.cpu_action = @ \ {DMA},
              !.hregs.dma_channel_mask = 0,
              !.obs.cleared = @ \cup {DMA},
              !.obs.mask = m.hregs.dma_channel_mask]

CanTick == ctl.pos = "idle" /\ fault = "none" /\ ticks < MaxTicks

\* Cpu::tick, branch check_and_reset_nmi
TickNmi ==
    /\ CanTick
    /\ NMI \in hregs.cpu_action
    /\ Commit(TickEnd(Interrupt(CheckAndReset(TickStart(Cur, "nmi"), NMI), "Nmi")))
    /\ ticks' = ticks + 1
    /\ UNCHANGED ctl

\* an IRQ branch that ignores the I flag
IrqAlwaysAccepted(f) == TRUE

\* `if !self.flags.interrupt_disable` in the IRQ branch of Cpu::tick
IrqAccepted(f) == ~f.interrupt_disable

\* Cpu::tick, branch check_and_reset_irq
TickIrq ==
    /\ CanTick
    /\ NMI \notin hregs.cpu_action
    /\ IRQ \in hregs.cpu_action
    /\ LET m == CheckAndReset(TickStart(Cur, "irq"), IRQ)
       IN  Commit(TickEnd(IF IrqAccepted(m.flags) THEN Interrupt(m, "Irq") ELSE m))
    /\ ticks' = ticks + 1
    /\ UNCHANGED ctl

\* Cpu::tick, branch check_and_reset_dma: entry of dma_transfer
TickDma ==
    /\ CanTick
    /\ NMI \notin hregs.cpu_action
    /\ IRQ \notin hregs.cpu_action
    /\ DMA \in hregs.cpu_action
    /\ Commit(HwTick(CheckAndResetDma(TickStart(Cur, "dma")), DMA_CYCLES))
    /\ ctl' = [pos |-> "dma", channel_mask |-> hregs.dma_channel_mask, i |-> 0,
               inner |-> FALSE]
    /\ ticks' = ticks + 1

\* Cpu::tick, no action pending: fetch one opcode and execute it
TickOpcode ==
    /\ CanTick
    /\ ~cpu_action_ready(hregs)
    /\ LET m == ReadNext(TickStart(Cur, "opcode"), 1)
       IN  /\ m.fault = "none" => m.v \in Opcodes
           /\ Commit(TickEnd(IF m.fault # "none" THEN m
                             ELSE Execute([m EXCEPT !.obs.opcode = m.v], m.v)))
    /\ ticks' = ticks + 1
    /\ UNCHANGED ctl

(* --------------------------------- DMA --------------------------------- *)
\* TransferMode::len
TransferModeLen(mode) ==
    CASE mode = "A" -> 1
      [] mode = "AB" -> 2
      [] mode = "AA" -> 2
      [] mode = "AABB" -> 4
      [] mode = "ABCD" -> 4
      [] mode = "ABAB" -> 4

\* an iterator whose two-register modes alternate instead of repeating
TransferModeOffsetAlternating(mode, phase) ==
    CASE mode \in {"A", "AB", "ABCD"} -> phase
      [] mode \in {"AA", "AABB", "ABAB"} -> phase % 2

\* TransferModeIterator::next: the offset produced at a phase
TransferModeOffset(mode, phase) ==
    CASE mode \in {"A", "AB", "ABCD"} -> phase
      [] mode \in {"AA", "AABB"} -> phase \div 2
      [] mode = "ABAB" -> phase % 2

\* Hardware::transfer: one byte from src to dst over the routed bus
Transfer(m, src, dst) ==
    LET put(x) == WriteU8(x, dst.bank, dst.offset, x.v)
    IN  put(ReadU8(m, src.bank, src.offset))

\* the source step after a byte, per IncrementType
NextSource(increment_type, offset) ==
    CASE increment_type = "Increment" -> W16(offset + 1)
      [] increment_type = "Decrement" -> W16(offset - 1)
      [] OTHER -> offset

\* a mask test that looks one bit too high
SelectedAbove(channel_mask, i) == Bit(channel_mask, i + 1) = 1

\* `channel_mask & (0x01 << i) == 0`, negated
Selected(channel_mask, i) == Bit(channel_mask, i) = 1

\* a channel taken up at no charge
ChannelSetupUncharged(m) == m

\* hardware.tick(DMA_CYCLES) once a channel is taken up
ChannelSetup(m) == HwTick(m, DMA_CYCLES)

\* the body of the byte loop up to the count: transfer, then hardware.tick
TransferByte(m, channel, offset) ==
    LET destination == [bank |-> 0, offset |-> channel.destination + offset]
    IN  HwTick(IF channel.reverse_transfer
               THEN Transfer(m, destination, channel.source)
               ELSE Transfer(m, channel.source, destination), DMA_CYCLES)

\* dma_transfer: head of the `for i in 0..DMA_CHANNEL_COUNT` loop
DmaNext ==
    /\ ctl.pos = "dma" /\ ~ctl.inner /\ fault = "none"
    /\ UNCHANGED ticks
    /\ IF ctl.i = DMA_CHANNEL_COUNT
       THEN /\ Commit(TickEnd(Cur))
            /\ ctl' = Idle
       ELSE IF ~Selected(ctl.channel_mask, ctl.i) \/ dma[ctl.i].hdma_active
       THEN /\ ctl' = [ctl EXCEPT !.i = @ + 1]
            /\ Commit(Cur)
       ELSE /\ Commit(ChannelSetup([Cur EXCEPT !.obs.serviced = Append(@, ctl.i)]))
            /\ ctl' = [pos |-> "dma", channel_mask |-> ctl.channel_mask,
                       i |-> ctl.i, inner |-> TRUE, channel |-> dma[ctl.i],
                       count |-> dma[ctl.i].hdma_indirect_address.offset,
                       phase |-> 0]

\* dma_transfer: one pass of the `for offset in channel.transfer_mode.iter()` loop
DmaByte ==
    /\ ctl.pos = "dma" /\ ctl.inner /\ fault = "none"
    /\ UNCHANGED ticks
    /\ LET channel == ctl.channel
           count == W16(ctl.count - 1)
           moved(x) == [x EXCEPT !.obs.moved[ctl.i] = @ + 1]
           stored(x) ==
               IF x.fault = "none" /\ count = 0
               THEN [x EXCEPT !.dma[ctl.i] =
                        [channel EXCEPT !.hdma_indirect_address.offset = count]]
               ELSE x
           m == stored(moved(TransferByte(Cur, channel,
                       TransferModeOffset(channel.transfer_mode, ctl.phase))))
       IN  /\ Commit(m)
           /\ ctl' = IF m.fault # "none" THEN ctl
                     ELSE IF count = 0
                     THEN [pos |-> "dma", channel_mask |-> ctl.channel_mask,
                           i |-> ctl.i + 1, inner |-> FALSE]
                     ELSE [ctl EXCEPT
                             !.count = count,
                             !.phase = (@ + 1) % TransferModeLen(channel.transfer_mode),
                             !.channel.source.offset =
                                 NextSource(channel.increment_type, @)]

(* ---------------------------- initial states -------------------------- *)
\* CpuRegisters and CpuFlags as Cpu::new leaves them
Regs0 ==
    [accumulator |-> 0, index_x |-> 0, index_y |-> 0, data_bank |-> 0,
     direct_page |-> 0, program_bank |-> 0, program_counter |-> 0,
     stack_pointer |-> 0]

Flags0 ==
    [negative |-> FALSE, overflow |-> FALSE, memory_size |-> TRUE,
     index_size |-> TRUE, unused_flag |-> FALSE, break_flag |-> FALSE,
     decimal_mode |-> FALSE, interrupt_disable |-> FALSE, zero |-> FALSE,
     carry |-> FALSE, emulation_mode |-> TRUE]

\* HardwareRegs::new with IoPort::new
HRegs0 ==
    [cpu_action |-> {}, vblank |-> FALSE, hblank |-> FALSE,
     nmi_enabled |-> FALSE, nmi_active |-> FALSE,
     irq_enabled |-> "Never", irq_row |-> 0, irq_column |-> 0, irq_active |-> FALSE,
     multiplication_lhs |-> 255, multiplication_result |-> 0,
     division_lhs |-> 65535, division_result |-> 0,
     auto_read_enabled |-> FALSE, auto_read_active |-> 0,
     dma_channel_mask |-> 0, io_value |-> 192, io_triggered |-> FALSE]

\* DmaChannel::new
DmaChannel0 ==
    [reverse_transfer |-> FALSE, hdma_indirect_mode |-> FALSE,
     increment_type |-> "Increment", transfer_mode |-> "A",
     raw_control_value |-> 0, destination |-> \h2100,
     source |-> [bank |-> 0, offset |-> 0],
     hdma_indirect_address |-> [bank |-> 0, offset |-> 0],
     hdma_table_address |-> [bank |-> 0, offset |-> 0],
     hdma_line_counter |-> [repeat |-> TRUE, count |-> 127],
     hdma_active |-> FALSE]

Dma0 == [i \in 0 .. DMA_CHANNEL_COUNT - 1 |-> DmaChannel0]

\* Ppu::new (dot clock fields) with Screen::new
Ppu0 ==
    [h |-> 0, v |-> 0, hblank |-> TRUE, vblank |-> TRUE, cycles |-> 0,
     next_pixel_cycles |-> STANDARD_PIXEL_CYCLES,
     overscan |-> FALSE, overscan_buffer |-> FALSE]

NoBytes == [i \in {} |-> 0]

\* Wram::new
Wram0 == [data |-> NoBytes, address |-> 0]

\* a byte sequence laid out in the LoROM image from bank:base on (offsets wrap
\* inside the bank; only the ROM half of a bank is backed by the image)
At(bank, base, bytes) ==
    LET ks == {k \in 1 .. Len(bytes) : W16(base + k - 1) >= 32768}
        ix(k) == rom20(bank, W16(base + k - 1))
    IN  [i \in {ix(k) : k \in ks} |-> bytes[CHOOSE k \in ks : ix(k) = i]]

\* the interrupt vectors of the test images, bank 0
Vectors ==
    At(0, \hFFE5, <<\h10, \h91, \h92>>) @@ At(0, \hFFEA, <<\h00, \h94>>)
    @@ At(0, \hFFEE, <<\h00, \h93>>) @@ At(0, \hFFF4, <<\h00, \h95>>)
    @@ At(0, \hFFFA, <<\h00, \h96>>) @@ At(0, \hFFFC, <<\h00, \h80>>)
    @@ At(0, \hFFFE, <<\h00, \h97>>)

\* a two-bank LoROM cartridge whose unlisted bytes are NOP
Image(cells) ==
    [mode |-> "LoRom", size |-> 65536, sram_size |-> 0, data |-> cells,
     fill |-> \hEA]

\* the 16-bit word the image holds at bank 0 : offset
ImageWord(cells, offset) ==
    Peek(cells, rom20(0, offset), \hEA)
    + 256 * Peek(cells, rom20(0, W16(offset + 1)), \hEA)

\* PPU beam positions the scenarios start from, with the hardware registers'
\* copy of the blanking flags
Beam(where) ==
    CASE where = "quiet" ->
            [Ppu0 EXCEPT !.h = 100, !.v = 50, !.hblank = FALSE, !.vblank = FALSE]
      [] where = "vblank_next" ->
            [Ppu0 EXCEPT !.h = 339, !.v = 224, !.hblank = TRUE, !.vblank = FALSE]
      [] where = "irq_next" ->
            [Ppu0 EXCEPT !.h = 339, !.v = 50, !.hblank = TRUE, !.vblank = FALSE]
      [] where = "in_vblank" ->
            [Ppu0 EXCEPT !.h = 2, !.v = 225, !.hblank = FALSE, !.vblank = TRUE]

\* an initial machine: the state after construction with some fields replaced
Machine(image, r, f, hr, d, beam, oc) ==
    [regs |-> r, flags |-> f,
     hregs |-> [hr EXCEPT !.vblank = Beam(beam).vblank, !.hblank = Beam(beam).hblank],
     dma |-> d, wram |-> Wram0, sram |-> NoBytes, ppu |-> Beam(beam), clock |-> 0,
     rom |-> image, overflow_checks |-> oc]

\* a configured general-purpose DMA channel
Channel(control, dest, bank, offset, count) ==
    DmaWrite(DmaWrite(DmaWrite(DmaWrite(DmaWrite(DmaWrite(DmaWrite(DmaChannel0,
        0, control), 1, dest), 2, Lower(offset)), 3, Upper(offset)), 4, bank),
        5, Lower(count)), 6, Upper(count))

\* flags of the two CPU modes
FlagsOf(e, msize, xsize) ==
    [Flags0 EXCEPT !.emulation_mode = e,
                   !.memory_size = e \/ msize, !.index_size = e \/ xsize]

\* registers with 16-bit contents where the flags allow them
RegsOf(f, pb, pc, sp) ==
    [Regs0 EXCEPT !.accumulator = \h12AB,
                  !.index_x = IF f.index_size THEN \h0056 ELSE \h3456,
                  !.index_y = IF f.index_size THEN \h0078 ELSE \h5678,
                  !.direct_page = \h1300,
                  !.program_bank = pb, !.program_counter = pc,
                  !.stack_pointer = sp]

\* bytes preloaded in work RAM by the scenarios
WramBytes(base, bytes) == [i \in base .. base + Len(bytes) - 1 |-> bytes[i - base + 1]]

(* Scenario A: every set of pending actions; with no DMA pending the program
   at the reset address is STA $420B, which requests channels 0 and 2 *)
ArbitrationParams ==
    {p \in [e : BOOLEAN, i : BOOLEAN, pending : SUBSET {NMI, IRQ, DMA},
            beam : {"quiet", "vblank_next", "irq_next", "in_vblank"}] :
        NMI \in p.pending => p.beam = "in_vblank"}

ArbitrationState(p) ==
    [Machine(Image((IF DMA \in p.pending THEN NoBytes
                    ELSE At(0, \h8000, <<\h8D, \h0B, \h42>>)) @@ Vectors),
             [RegsOf(FlagsOf(p.e, TRUE, TRUE), 0, \h8000, \h01FF)
                 EXCEPT !.accumulator = \h1205],
             [FlagsOf(p.e, TRUE, TRUE) EXCEPT !.interrupt_disable = p.i],
             [HRegs0 EXCEPT !.cpu_action = p.pending,
                            !.dma_channel_mask = IF DMA \in p.pending THEN 5 ELSE 0,
                            !.nmi_enabled = TRUE,
                            !.nmi_active = NMI \in p.pending,
                            !.irq_enabled = "MatchRow", !.irq_row = 51,
                            !.irq_active = IRQ \in p.pending],
             [Dma0 EXCEPT ![0] = Channel(\h01, \h18, 0, \h1000, 3),
                          ![2] = Channel(\h80, \h80, \h7E, \h1800, 2)],
             p.beam, FALSE)
        EXCEPT !.wram.data = WramBytes(\h1000, <<\h11, \h22, \h33>>)]

ArbitrationStates == {ArbitrationState(p) : p \in ArbitrationParams}

(* Scenario B: the four interrupt entries from varied stack and code places *)
EntryParams ==
    {p \in [kind : {"Break", "Coprocessor", "Irq", "Nmi"}, e : BOOLEAN, i : BOOLEAN,
            sp : {\h01FF, \h0001, \h1FF0}, pc : {\h8000, \hFFFF}, pb : {0, 1}] :
        p.kind = "Irq" => ~p.i}

EntryOpcode(kind) == IF kind = "Break" THEN \h00 ELSE \h02

EntryState(p) ==
    LET f == [FlagsOf(p.e, FALSE, TRUE)
                 EXCEPT !.interrupt_disable = p.i, !.decimal_mode = TRUE,
                        !.carry = TRUE, !.negative = TRUE]
        code == IF p.kind \in {"Break", "Coprocessor"}
                THEN At(p.pb, p.pc, <<EntryOpcode(p.kind), \hAB>>) ELSE NoBytes
    IN  Machine(Image(code @@ Vectors),
                RegsOf(f, p.pb, p.pc, p.sp), f,
                [HRegs0 EXCEPT !.cpu_action =
                                   CASE p.kind = "Irq" -> {IRQ}
                                     [] p.kind = "Nmi" -> {NMI}
                                     [] OTHER -> {},
                               !.nmi_enabled = p.kind = "Nmi",
                               !.nmi_active = p.kind = "Nmi",
                               !.irq_enabled = IF p.kind = "Irq" THEN "MatchColumn"
                                               ELSE "Never",
                               !.irq_column = 99,
                               !.irq_active = p.kind = "Irq"],
                Dma0, IF p.kind = "Nmi" THEN "in_vblank" ELSE "quiet", FALSE)

EntryStates == {EntryState(p) : p \in EntryParams}

(* Scenario C: push/pull, call/return and BRK/RTI pairs *)
PairPrograms ==
    {<<\h48, \h68>>, <<\hDA, \hFA>>, <<\h5A, \h7A>>, <<\h08, \h28>>, <<\h8B, \hAB>>,
     <<\h0B, \h2B>>, <<\h20, \h00, \h90>>, <<\h22, \h00, \h90, \h01>>, <<\h00, \hAB>>}

PairParams ==
    {p \in [prog : PairPrograms, e : BOOLEAN, msize : BOOLEAN, xsize : BOOLEAN,
            base : {\h8000, \hFFFC, \hFFFD}, sp : {\h01FF, \h1FF0},
            oc : BOOLEAN] :
        p.e => (p.msize /\ p.xsize)}

PairState(p) ==
    LET f == FlagsOf(p.e, p.msize, p.xsize)
        code == At(0, p.base, p.prog) @@ Vectors
        handler == ImageWord(code, IF p.e THEN \hFFFE ELSE \hFFE6)
        back == CASE p.prog[1] = \h20 -> At(0, \h9000, <<\h60>>)
                  [] p.prog[1] = \h22 -> At(1, \h9000, <<\h6B>>)
                  [] p.prog[1] = \h00 -> At(0, handler, <<\h40>>)
                  [] OTHER -> NoBytes
    IN  Machine(Image(back @@ code), RegsOf(f, 0, p.base, p.sp), f, HRegs0, Dma0,
                "quiet", p.oc)

PairStates == {PairState(p) : p \in PairParams}

(* Scenario D: STA $420B starts general-purpose DMA on channel c, alone or with
   channel 2, over the transfer modes, increment types, directions and counts;
   count 0 asks for 65536 bytes *)
DmaParams ==
    {p \in [mode : 0 .. 7, step : {\h00, \h10, \h08}, reverse : BOOLEAN,
            source : {\h1000, \hFFFF, \h0000}, count : {1, 2, 4, 5, 0},
            c : {0, 7}, with2 : BOOLEAN] :
        /\ p.count = 0 => (/\ p.mode = 3 /\ p.step = \h00 /\ ~p.reverse
                           /\ p.source = \h1000 /\ p.c = 0 /\ ~p.with2)
        /\ p.mode \in {6, 7} => (p.step = \h00 /\ p.c = 0 /\ ~p.with2)}

DmaState(p) ==
    LET f == FlagsOf(TRUE, TRUE, TRUE)
        channel_mask == 2 ^ p.c + (IF p.with2 THEN 4 ELSE 0)
        control == p.mode + p.step + (IF p.reverse THEN \h80 ELSE 0)
    IN  [Machine(Image(At(0, \h8000, <<\h8D, \h0B, \h42>>) @@ Vectors),
                 [RegsOf(f, 0, \h8000, \h01FF)
                     EXCEPT !.accumulator = \h1200 + channel_mask],
                 f, HRegs0,
                 [Dma0 EXCEPT ![p.c] = Channel(control, \h18, 0, p.source, p.count),
                              ![2] = Channel(\h80, \h80, \h7E, \h1800, 2)],
                 "quiet", FALSE)
            EXCEPT !.wram.data = WramBytes(\h1000, <<\h11, \h22, \h33, \h44, \h55>>)
                                 @@ WramBytes(0, <<\hA0, \hA1>>)]

DmaStates == {DmaState(p) : p \in DmaParams}

(* Scenario E: ADC and SBC immediate in binary mode, both operand widths, over
   the boundary values of accumulator and operand and both carries *)
AluValues(wide) ==
    IF wide THEN {\h0000, \h0001, \h00FF, \h7FFF, \h8000, \hFFFF}
    ELSE {\h00, \h01, \h05, \h7F, \h80, \hFF}

AluParams ==
    {p \in [op : {\h69, \hE9}, wide : BOOLEAN, a : AluValues(TRUE) \cup AluValues(FALSE),
            b : AluValues(TRUE) \cup AluValues(FALSE), c : BOOLEAN] :
        p.a \in AluValues(p.wide) /\ p.b \in AluValues(p.wide)}

AluState(p) ==
    LET f == [FlagsOf(FALSE, ~p.wide, TRUE) EXCEPT !.carry = p.c]
    IN  Machine(Image(At(0, \h8000, <<p.op, Lower(p.b), Upper(p.b)>>) @@ Vectors),
                [RegsOf(f, 0, \h8000, \h01FF)
                    EXCEPT !.accumulator = IF p.wide THEN p.a ELSE \h1200 + p.a],
                f, HRegs0, Dma0, "quiet", FALSE)

AluStates == {AluState(p) : p \in AluParams}

(* Scenario F: construction over cartridges with varied reset vectors, then the
   first instructions, which use the stack as construction left it *)
ResetPrograms ==
    {<<\h48, \h68>>, <<\h08, \h28>>, <<\h68, \h48>>, <<\h28, \h08>>,
     <<\h0B, \h2B>>, <<\h20, \h00, \h90>>, <<\h00, \hAB>>, <<\h02, \hAB>>,
     <<\h60>>, <<\h40>>, <<\hEA, \h48>>, <<\hFB, \h48>>}

ResetParams ==
    [prog : ResetPrograms, lo : {\h00, \h34, \hFD}, hi : {\h80, \h92, \hFF},
     oc : BOOLEAN]

ResetState(p) ==
    [Machine(Image(At(0, \hFFFC, <<p.lo, p.hi>>)
                   @@ At(0, p.hi * 256 + p.lo, p.prog)
                   @@ At(0, \h9000, <<\h60>>) @@ Vectors),
             Regs0, Flags0, HRegs0, Dma0, "quiet", p.oc)
        EXCEPT !.ppu = Ppu0]

ResetStates == {ResetState(p) : p \in ResetParams}

(* Scenario G: mode and width changes. Programs of XCE, REP, SEP, PLP, RTI,
   BRK, PHP and STA abs,X over both modes and all widths; b is the immediate
   byte of REP and SEP and the status byte waiting on the stack, and the
   cartridge holds a copy of it at $00:8020 *)
ModeBytes == {\h00, \h10, \h20, \h30, \hCF, \hFF}

ModePrograms(b) ==
    {<<\hFB, \h9D, \h00, \h10, \h08>>, <<\hFB, \hC2, b, \h08>>,
     <<\hFB, \hE2, b, \h08>>, <<\hFB, \h28, \h08>>, <<\hFB, \h40>>,
     <<\hFB, \h00, \hAB>>, <<\hE2, b, \h08, \hFB>>, <<\hC2, b, \h08, \hFB>>,
     <<\h28, \h08, \hFB>>, <<\h40>>, <<\hC2, \h30, \hE2, b, \h08>>}

ModeParams ==
    {p \in [b : ModeBytes, prog : UNION {ModePrograms(b) : b \in ModeBytes},
            e : BOOLEAN, msize : BOOLEAN, xsize : BOOLEAN, c : BOOLEAN] :
        p.prog \in ModePrograms(p.b) /\ (p.e => (p.msize /\ p.xsize))}

ModeState(p) ==
    LET f == [FlagsOf(p.e, p.msize, p.xsize) EXCEPT !.carry = p.c]
    IN  [Machine(Image(At(0, \h8000, p.prog) @@ At(0, \h8010, <<\h08, \hFB>>)
                       @@ At(0, \h8020, <<p.b>>) @@ Vectors),
                 [RegsOf(f, 0, \h8000, \h01F0)
                     EXCEPT !.accumulator = \hA5C3,
                            !.index_x = IF f.index_size THEN \h0056 ELSE \h0356,
                            !.index_y = IF f.index_size THEN \h0078 ELSE \h0478],
                 f, HRegs0, Dma0, "quiet", FALSE)
            EXCEPT !.wram.data = WramBytes(\h01F1, <<p.b, \h10, \h80, \h00>>)]

ModeStates == {ModeState(p) : p \in ModeParams}

(* Scenario H: a block move MVN or MVP at $00:8000 in native mode, over
   counts, index values that wrap, both index widths and work-RAM banks *)
MoveParams ==
    [op : {\h44, \h54}, n : {0, 1, 2, 5, \hFFFF},
     x : {\h0010, \h00FF, \hFFFF, \h0000}, y : {\h0020, \hFFFF, \h0000},
     src : {\h00, \h7E}, dst : {\h7E, \h7F}, narrow : BOOLEAN]

MoveState(p) ==
    LET f == FlagsOf(FALSE, p.narrow, p.narrow)
    IN  [Machine(Image(At(0, \h8000, <<p.op, p.dst, p.src>>) @@ Vectors),
                 [RegsOf(f, 0, \h8000, \h01F0)
                     EXCEPT !.accumulator = p.n,
                            !.index_x = IF p.narrow THEN Lower(p.x) ELSE p.x,
                            !.index_y = IF p.narrow THEN Lower(p.y) ELSE p.y],
                 f, HRegs0, Dma0, "quiet", FALSE)
            EXCEPT !.wram.data = WramBytes(\h000E, <<\hA1, \hA2, \hA3, \hA4>>)
                                 @@ WramBytes(\h00FE, <<\hB1, \hB2, \hB3>>)
                                 @@ WramBytes(0, <<\hC1, \hC2>>)
                                 @@ WramBytes(\hFFFD, <<\hD1, \hD2, \hD3>>)]

MoveStates == {MoveState(p) : p \in MoveParams}

(* Scenario I: the unsupported instructions. ADC and SBC, immediate and
   absolute, with D set and clear, in both modes and accumulator widths; WAI
   and STP *)
AbortParams ==
    {p \in [op : {\h69, \hE9, \h6D, \hED, \hCB, \hDB}, d : BOOLEAN, e : BOOLEAN,
            wide : BOOLEAN, a : {\h0000, \h0199, \h8001}, b : {\h00, \h01, \h99},
            c : BOOLEAN] :
        p.e => ~p.wide}

AbortState(p) ==
    LET f == [FlagsOf(p.e, ~p.wide, TRUE) EXCEPT !.carry = p.c, !.decimal_mode = p.d]
        operand == IF p.op \in {\h6D, \hED} THEN <<\h00, \h10>> ELSE <<p.b, \h00>>
    IN  [Machine(Image(At(0, \h8000, <<p.op>> \o operand) @@ Vectors),
                 [RegsOf(f, 0, \h8000, \h01F0) EXCEPT !.accumulator = p.a],
                 f, HRegs0, Dma0, "quiet", FALSE)
            EXCEPT !.wram.data = WramBytes(\h1000, <<p.b, \h00>>)]

AbortStates == {AbortState(p) : p \in AbortParams}

(* Scenario J: the hardware divider. With a 16-bit accumulator n and an 8-bit
   X = d: STA $4204 ; STX $4206 ; then LDA of the quotient or of the remainder *)
DivideParams ==
    [n : {0, 1, 7, 255, 256, \h1234, \h8000, \hFFFF}, d : {0, 1, 2, 3, 7, 16, 255},
     result : {\h14, \h16}]

DivideState(p) ==
    LET f == FlagsOf(FALSE, FALSE, TRUE)
    IN  Machine(Image(At(0, \h8000, <<\h8D, \h04, \h42, \h8E, \h06, \h42,
                                      \hAD, p.result, \h42>>) @@ Vectors),
                [RegsOf(f, 0, \h8000, \h01F0)
                    EXCEPT !.accumulator = p.n, !.index_x = p.d],
                f, HRegs0, Dma0, "quiet", FALSE)

DivideStates == {DivideState(p) : p \in DivideParams}

(* Scenario K: the beam a few dots before a row match, before the start or
   the end of VBlank, or away from them, with the raster IRQ and the NMI
   enabled or not and their indicators set or not; the program reads $4211 and
   $4210, or writes a to $4200 first; so do the IRQ and NMI handlers *)
RasterBeams ==
    {<<339, 50>>, <<333, 50>>, <<100, 50>>, <<339, 224>>, <<333, 224>>, <<100, 225>>,
     <<339, 261>>}

RasterPrograms ==
    {<<\hAD, \h11, \h42, \hAD, \h11, \h42, \hAD, \h11, \h42>>,
     <<\hAD, \h10, \h42, \hAD, \h10, \h42, \hAD, \h10, \h42>>,
     <<\hEA, \hAD, \h11, \h42, \hAD, \h10, \h42>>,
     <<\h8D, \h00, \h42, \hAD, \h11, \h42, \hAD, \h10, \h42>>}

RasterParams ==
    {p \in [beam : RasterBeams, prog : RasterPrograms,
            irq : {<<"Never", 51>>, <<"MatchRow", 51>>, <<"MatchRow", 50>>},
            irq_active : BOOLEAN, pending : BOOLEAN, nmi_enabled : BOOLEAN,
            nmi_active : BOOLEAN, i : BOOLEAN] :
        p.nmi_active => p.beam[2] >= VBLANK_START_NORMAL}

RasterState(p) ==
    LET f == [FlagsOf(FALSE, TRUE, TRUE) EXCEPT !.interrupt_disable = p.i]
        vblank == p.beam[2] >= VBLANK_START_NORMAL
        hblank == p.beam[1] >= HBLANK_START \/ p.beam[1] < HBLANK_END
    IN  [Machine(Image(At(0, \h8000, p.prog) @@ At(0, \h9300, <<\hAD, \h11, \h42>>)
                       @@ At(0, \h9400, <<\hAD, \h10, \h42>>) @@ Vectors),
                 [RegsOf(f, 0, \h8000, \h01F0) EXCEPT !.accumulator = \h12A0],
                 f,
                 [HRegs0 EXCEPT !.irq_enabled = p.irq[1], !.irq_row = p.irq[2],
                                !.irq_active = p.irq_active,
                                !.cpu_action = IF p.pending THEN {IRQ} ELSE {},
                                !.nmi_enabled = p.nmi_enabled,
                                !.nmi_active = p.nmi_active],
                 Dma0, "quiet", FALSE)
            EXCEPT !.ppu = [Ppu0 EXCEPT !.h = p.beam[1], !.v = p.beam[2],
                                        !.hblank = hblank, !.vblank = vblank],
                   !.hregs.vblank = vblank, !.hregs.hblank = hblank]

RasterStates == {RasterState(p) : p \in RasterParams}

(* Scenario L: every conditional branch and BRA over all N, V, Z, C, with
   forward and backward displacements, in both modes, also where PC wraps *)
BranchParams ==
    [op : {\h10, \h30, \h50, \h70, \h80, \h90, \hB0, \hD0, \hF0},
     n : BOOLEAN, v : BOOLEAN, z : BOOLEAN, c : BOOLEAN,
     disp : {\h00, \h02, \h7F, \h80, \hFE}, base : {\h8100, \hFFFE}, e : BOOLEAN]

BranchState(p) ==
    LET f == [FlagsOf(p.e, TRUE, TRUE) EXCEPT !.negative = p.n, !.overflow = p.v,
                                             !.zero = p.z, !.carry = p.c]
    IN  Machine(Image(At(0, p.base, <<p.op, p.disp>>) @@ Vectors),
                RegsOf(f, 0, p.base, \h01F0), f, HRegs0, Dma0, "quiet", FALSE)

BranchStates == {BranchState(p) : p \in BranchParams}

(* Scenario M: one accumulator-width instruction at the reset address of bank
   0, at either width and in emulation mode, over accumulators whose upper byte
   is not zero, operands with their top bits set or clear, and N, V, C set or
   clear; b is the immediate operand, the word at $00:0010, the word on top of
   the stack, and its bytes are X and Y *)
ImmediateOpcodes == {\h09, \h29, \h49, \h69, \h89, \hA9, \hE9}

AbsoluteOpcodes == {\h2C, \hAD}

ImpliedOpcodes == {\h0A, \h1A, \h2A, \h3A, \h4A, \h68, \h6A, \h8A, \h98}

AccumulatorParams ==
    [op : ImmediateOpcodes \cup AbsoluteOpcodes \cup ImpliedOpcodes,
     width : {"emulation", "narrow", "wide"},
     a : {\h0000, \h12FF, \hA580, \hFF7F},
     b : {\h0000, \h407F, \h8080, \hC0FF, \h0140},
     c : BOOLEAN, nv : BOOLEAN]

AccumulatorState(p) ==
    LET f == [FlagsOf(p.width = "emulation", p.width # "wide", TRUE)
                 EXCEPT !.carry = p.c, !.negative = p.nv, !.overflow = p.nv]
        operand == IF p.op \in AbsoluteOpcodes THEN <<\h10, \h00>>
                   ELSE IF p.op \in ImpliedOpcodes THEN <<>>
                   ELSE IF p.width = "wide" THEN <<Lower(p.b), Upper(p.b)>>
                   ELSE <<Lower(p.b)>>
        s == Machine(Image(At(0, \h8000, <<p.op>> \o operand) @@ Vectors),
                     [RegsOf(f, 0, \h8000, \h01F0)
                         EXCEPT !.accumulator = p.a, !.index_x = Lower(p.b),
                                !.index_y = Upper(p.b)],
                     f, HRegs0, Dma0, "quiet", FALSE)
    IN  [s EXCEPT !.wram.data = (\h0010 :> Lower(p.b)) @@ (\h0011 :> Upper(p.b))
                                @@ (\h01F1 :> Lower(p.b)) @@ (\h01F2 :> Upper(p.b))]

AccumulatorStates == {AccumulatorState(p) : p \in AccumulatorParams}

(* Scenario O: one register transfer or one comparison at the reset address,
   over every combination of the widths M and X and in emulation mode, with N
   and Z set or clear; A and Y hold a, X, S and D hold b (index registers cut
   to their width), and b is also the operand of the comparison, immediate or
   at $00:0010 *)
TransferOpcodes == {\h1B, \h3B, \h5B, \h7B, \h8A, \h98, \h9A, \h9B, \hA8, \hAA, \hBA, \hBB}

CompareOpcodes == {\hC0, \hC9, \hCD, \hE0, \hEC}

RegisterParams ==
    {p \in [op : TransferOpcodes \cup CompareOpcodes,
            e : BOOLEAN, msize : BOOLEAN, xsize : BOOLEAN,
            a : {\h0000, \h0080, \h12FF, \h8000},
            b : {\h0000, \h0080, \h12FF, \h8000, \h0100},
            n : BOOLEAN, z : BOOLEAN] :
        p.e => (p.msize /\ p.xsize)}

RegisterState(p) ==
    LET f == [FlagsOf(p.e, p.msize, p.xsize) EXCEPT !.negative = p.n, !.zero = p.z]
        wide == IF p.op \in {\hC9, \hCD} THEN ~f.memory_size ELSE ~f.index_size
        operand == IF p.op \in {\hCD, \hEC} THEN <<\h10, \h00>>
                   ELSE IF p.op \in TransferOpcodes THEN <<>>
                   ELSE IF wide THEN <<Lower(p.b), Upper(p.b)>>
                   ELSE <<Lower(p.b)>>
        s == Machine(Image(At(0, \h8000, <<p.op>> \o operand) @@ Vectors),
                     [RegsOf(f, 0, \h8000, p.b)
                         EXCEPT !.accumulator = p.a,
                                !.index_x = IF f.index_size THEN Lower(p.b) ELSE p.b,
                                !.index_y = IF f.index_size THEN Lower(p.a) ELSE p.a,
                                !.direct_page = p.b],
                     f, HRegs0, Dma0, "quiet", FALSE)
    IN  [s EXCEPT !.wram.data = (\h0010 :> Lower(p.b)) @@ (\h0011 :> Upper(p.b))]

RegisterStates == {RegisterState(p) : p \in RegisterParams}

(* Scenario P: one load or store through an indexed address mode at the reset
   address; the base address sits low in a bank or at its top, in bank $00 or
   $7E, the index is 8 or 16 bits wide, and the direct page starts at 0, off a
   page boundary, or so high that the 24-bit pointer at D + $10 runs over the
   end of bank 0 *)
IndexedOpcodes == {\h9F, \hB1, \hB5, \hB7, \hB9, \hBD, \hBF}

AddressParams ==
    [op : IndexedOpcodes, base : {\h1000, \hFFF0, \hFFFF}, bank : {\h00, \h7E},
     index : {\h00, \h01, \h20, \hFF, \h8010}, msize : BOOLEAN,
     d : {\h0000, \h1301, \hFFEF}]

AddressState(p) ==
    LET f == FlagsOf(FALSE, p.msize, p.index < 256)
        pointer == <<Lower(p.base), Upper(p.base), p.bank>>
        operand == IF p.op \in {\h9F, \hBF} THEN pointer
                   ELSE IF p.op \in {\hB9, \hBD} THEN <<Lower(p.base), Upper(p.base)>>
                   ELSE <<\h10>>
        low == {k \in 1 .. 3 : W16(p.d + 15 + k) < 8192}
        s == Machine(Image(At(0, \h8000, <<p.op>> \o operand)
                           @@ At(0, W16(p.d + 16), pointer) @@ Vectors),
                     [RegsOf(f, 0, \h8000, \h01F0)
                         EXCEPT !.accumulator = \h55AA, !.index_x = p.index,
                                !.index_y = p.index, !.direct_page = p.d,
                                !.data_bank = p.bank],
                     f, HRegs0, Dma0, "quiet", FALSE)
    IN  [s EXCEPT !.wram.data = [i \in {W16(p.d + 15 + k) : k \in low}
                                   |-> pointer[CHOOSE k \in low : W16(p.d + 15 + k) = i]]]

AddressStates == {AddressState(p) : p \in AddressParams}

(* Scenario Q: one 8-bit LDA or STA at an absolute address, through each data
   bank of interest, at offsets on both edges of every region of the bus map;
   work RAM holds a few known bytes and the WRAM port cursor starts at 0, in
   the middle of the upper half, or on the last byte *)
BusOffsets ==
    {\h0000, \h1FFF, \h2000, \h20FF, \h2100, \h2133, \h213F, \h2140, \h2147, \h217F,
     \h2180, \h2181, \h2182, \h2183, \h2184, \h21BF, \h21C0, \h3FFF, \h4000, \h407F,
     \h4080, \h41FF, \h4200, \h4202, \h4203, \h4206, \h4210, \h4216, \h427F, \h4280,
     \h42FF, \h4300, \h4312, \h4325, \h437A, \h437F, \h4380, \h5FFF, \h6000, \h8000,
     \hFFFF}

BusParams ==
    [op : {\h8D, \hAD}, bank : {\h00, \h02, \h3F, \h40, \h70, \h7E, \h7F, \h80, \hBF},
     offset : BusOffsets, value : {\h04, \hA1}, cursor : {\h00000, \h12345, \h1FFFF}]

BusState(p) ==
    LET f == FlagsOf(FALSE, TRUE, TRUE)
        s == Machine(Image(At(0, \h8000, <<p.op, Lower(p.offset), Upper(p.offset)>>)
                           @@ Vectors),
                     [RegsOf(f, 0, \h8000, \h01F0)
                         EXCEPT !.accumulator = \h1200 + p.value, !.data_bank = p.bank],
                     f, [HRegs0 EXCEPT !.division_result = \h3C2D,
                                    !.multiplication_result = \h5E4F],
                     [Dma0 EXCEPT ![1] = Channel(\h09, \h2118, \h7E, \h2000, \h0040),
                                  ![2] = Channel(\h82, \h2104, \h01, \h8000, \h0220)],
                     "quiet", FALSE)
    IN  [s EXCEPT !.wram = [data |-> (0 :> \h5A) @@ (\h1FFF :> \hC3) @@ (\h12345 :> \h66)
                                     @@ (\h1FFFF :> \h77),
                            address |-> p.cursor]]

BusStates == {BusState(p) : p \in BusParams}

Obs0 ==
    [kind |-> "none", opcode |-> -1, entry |-> "none", log |-> <<>>, stamps |-> <<>>,
     reads |-> 0, writes |-> 0, bus_cycles |-> 0,
     cleared |-> {}, mask |-> 0, serviced |-> <<>>,
     moved |-> [i \in 0 .. DMA_CHANNEL_COUNT - 1 |-> 0], done |-> TRUE,
     start |-> [regs |-> Regs0, flags |-> Flags0, cpu_action |-> {}, dma |-> Dma0],
     pre |-> [regs |-> Regs0, flags |-> Flags0, clock |-> 0, cpu_action |-> {},
              dma_channel_mask |-> 0, dma |-> Dma0, hregs |-> HRegs0, ppu |-> Ppu0,
              wram |-> Wram0]]

\* the machine s, about to run its first tick
StartsAs(s) ==
    /\ regs = s.regs
    /\ flags = s.flags
    /\ hregs = s.hregs
    /\ dma = s.dma
    /\ wram = s.wram
    /\ sram = s.sram
    /\ ppu = s.ppu
    /\ clock = s.clock
    /\ rom = s.rom
    /\ overflow_checks = s.overflow_checks
    /\ fault = "none"
    /\ ctl = Idle
    /\ ticks = 0
    /\ obs = [Obs0 EXCEPT
                !.start = [regs |-> s.regs, flags |-> s.flags,
                           cpu_action |-> s.hregs.cpu_action, dma |-> s.dma],
                !.pre = [regs |-> s.regs, flags |-> s.flags, clock |-> s.clock,
                         cpu_action |-> s.hregs.cpu_action,
                         dma_channel_mask |-> s.hregs.dma_channel_mask,
                         dma |-> s.dma, hregs |-> s.hregs, ppu |-> s.ppu,
                         wram |-> s.wram]]

Init == \E s \in ArbitrationStates \cup EntryStates \cup PairStates : StartsAs(s)

Next == TickNmi \/ TickIrq \/ TickDma \/ TickOpcode \/ DmaNext \/ DmaByte

Spec == Init /\ [][Next]_vars

\* the DMA scenarios alone: the triggering store, the transfer, what follows
InitDma == \E s \in DmaStates : StartsAs(s)

NextDma == TickOpcode \/ TickDma \/ DmaNext \/ DmaByte

SpecDma == InitDma /\ [][NextDma]_vars

\* the transfers and comparisons alone
InitRegister == \E s \in RegisterStates : StartsAs(s)

NextRegister == TickOpcode

SpecRegister == InitRegister /\ [][NextRegister]_vars

\* the indexed address modes alone
InitAddress == \E s \in AddressStates : StartsAs(s)

NextAddress == TickOpcode

SpecAddress == InitAddress /\ [][NextAddress]_vars

\* single loads and stores across the bus map
InitBus == \E s \in BusStates : StartsAs(s)

NextBus == TickOpcode

SpecBus == InitBus /\ [][NextBus]_vars

\* the accumulator-width instructions alone
InitAccumulator == \E s \in AccumulatorStates : StartsAs(s)

NextAccumulator == TickOpcode

SpecAccumulator == InitAccumulator /\ [][NextAccumulator]_vars

\* the arithmetic scenarios alone
InitAlu == \E s \in AluStates : StartsAs(s)

NextAlu == TickOpcode

SpecAlu == InitAlu /\ [][NextAlu]_vars

(* ------------------------------ the loader ----------------------------- *)
SMC_HEADER_SIZE == 512

\* Vec::split_off: the bytes of a file from index n on
SplitOff(file, n) ==
    [size |-> file.size - n, fill |-> file.fill,
     data |-> [i \in {j - n : j \in {j \in DOMAIN file.data : j >= n}} |-> file.data[i + n]]]

\* String::from_utf8(..).ok().is_some(): the bytes from the k-th on are well-formed UTF-8
RECURSIVE Utf8(_, _)
Utf8(bytes, k) ==
    LET cont(j) == j <= Len(bytes) /\ bytes[j] \in 128 .. 191
    IN  IF k > Len(bytes) THEN TRUE
        ELSE CASE bytes[k] < 128 -> Utf8(bytes, k + 1)
               [] bytes[k] \in 194 .. 223 -> cont(k + 1) /\ Utf8(bytes, k + 2)
               [] bytes[k] \in 224 .. 239 ->
                    /\ cont(k + 1) /\ cont(k + 2)
                    /\ bytes[k] = 224 => bytes[k + 1] >= 160
                    /\ bytes[k] = 237 => bytes[k + 1] <= 159
                    /\ Utf8(bytes, k + 3)
               [] bytes[k] \in 240 .. 244 ->
                    /\ cont(k + 1) /\ cont(k + 2) /\ cont(k + 3)
                    /\ bytes[k] = 240 => bytes[k + 1] >= 144
                    /\ bytes[k] = 244 => bytes[k + 1] <= 143
                    /\ Utf8(bytes, k + 4)
               [] OTHER -> FALSE

\* 0x400_usize.checked_shl(n): None from the width of usize on, and no image is
\* as long as the values of the shifts between 21 and that width
CheckedShl(n) == IF n <= 20 THEN 1024 * (2 ^ n) ELSE 0

\* `if !valid { score = 0; }`
ScoreIfValid(valid, score) == IF valid THEN score ELSE 0

\* RomHeader::new; slicing past the end of rom_data panics
RomHeaderNew(rom_data, mode) ==
    LET base == IF mode = "LoRom" THEN \h7F00 ELSE \hFF00
        header(k) == Peek(rom_data.data, base + k, rom_data.fill)
        reset_vector == header(\hFD)
        valid == reset_vector >= 128 /\ reset_vector # 255
        expected_rom_mode == IF header(\hD5) % 2 = 0 THEN "LoRom" ELSE "HiRom"
        title == Utf8([k \in 1 .. 21 |-> header(\hC0 + k - 1)], 1)
        rom_size == CheckedShl(header(\hD7))
        score == B2N(valid) + B2N(expected_rom_mode = mode) + B2N(title)
                 + B2N(rom_size = rom_data.size)
    IN  [panicked |-> rom_data.size < base + 256,
         mode |-> mode, score |-> ScoreIfValid(valid, score), title |-> title,
         rom_size |-> rom_size,
         sram_size |-> IF header(\hD6) % 16 \in {1, 2} THEN CheckedShl(header(\hD8))
                       ELSE 0]

\* `if hi_rom_header.score() >= lo_rom_header.score()`
Select(lo_rom_header, hi_rom_header) ==
    IF hi_rom_header.score >= lo_rom_header.score THEN hi_rom_header ELSE lo_rom_header

\* Rom::new on the bytes of the file: what it returns, or that it panicked
RomNew(file) ==
    LET rom_data == IF file.size % 1024 = SMC_HEADER_SIZE
                    THEN SplitOff(file, SMC_HEADER_SIZE) ELSE file
        lo_rom_header == RomHeaderNew(rom_data, "LoRom")
        hi_rom_header == RomHeaderNew(rom_data, "HiRom")
        header == Select(lo_rom_header, hi_rom_header)
    IN  IF file.size % 1024 \notin {0, SMC_HEADER_SIZE}
        THEN [fault |-> "invalid SMC header length", scored |-> <<>>]
        ELSE IF lo_rom_header.panicked \/ hi_rom_header.panicked
        THEN [fault |-> "slice index out of range", scored |-> <<>>]
        ELSE IF header.score > 0
        THEN [fault |-> "none", scored |-> <<lo_rom_header, hi_rom_header>>,
              rom |-> [mode |-> header.mode, size |-> rom_data.size,
                       sram_size |-> header.sram_size, data |-> rom_data.data,
                       fill |-> rom_data.fill]]
        ELSE [fault |-> "no valid header", scored |-> <<lo_rom_header, hi_rom_header>>]

(* Scenario N: files of 32, 64 and 128 KiB, bare, with a 512-byte copier
   header or with a few bytes too many; each of the two header candidates has
   its own reset vector and mode byte, and they share a title (ASCII, accented
   or broken), a size byte and an SRAM byte *)
Titles ==
    {[k \in 1 .. 21 |-> \h41],
     [k \in 1 .. 21 |-> IF k = 2 THEN \hC3 ELSE IF k = 3 THEN \hA9 ELSE \h41],
     [k \in 1 .. 21 |-> IF k = 21 THEN \hC3 ELSE \h41]}

FileParams ==
    [size : {32768, 33280, 65536, 66048, 65636, 131072},
     lo_reset : {\h00, \h80, \hFF}, hi_reset : {\h7F, \hFE, \hFF},
     lo_mode : {\h20, \h21}, hi_mode : {\h20, \h21},
     title : Titles, size_byte : {6, \hFF}, sram : {0, 3}]

\* the 256 bytes of a header candidate
HeaderBytes(title, mode, sram_byte, size_byte, reset) ==
    [k \in 0 .. 255 |->
        CASE k \in \hC0 .. \hD4 -> title[k - \hC0 + 1]
          [] k = \hD5 -> mode
          [] k = \hD6 -> IF sram_byte = 0 THEN 0 ELSE 2
          [] k = \hD7 -> size_byte
          [] k = \hD8 -> sram_byte
          [] k = \hFD -> reset
          [] OTHER -> 0]

FileOf(p) ==
    LET skip == IF p.size % 1024 = 0 THEN 0 ELSE p.size % 1024
        lo == HeaderBytes(p.title, p.lo_mode, p.sram, p.size_byte, p.lo_reset)
        hi == HeaderBytes(p.title, p.hi_mode, p.sram, p.size_byte, p.hi_reset)
        at(i) == IF i - skip \in \h7F00 .. \h7FFF THEN lo[i - skip - \h7F00]
                 ELSE hi[i - skip - \hFF00]
    IN  [size |-> p.size, fill |-> 0,
         data |-> [i \in {j \in (skip + \h7FC0 .. skip + \h7FFF)
                               \cup (skip + \hFFC0 .. skip + \hFFFF) : j < p.size}
                     |-> at(i)]]

Files == {FileOf(p) : p \in FileParams}

\* no cartridge yet
NoRom == [mode |-> "LoRom", size |-> 0, sram_size |-> 0, data |-> NoBytes, fill |-> 0]

\* main: Rom::new(path), the first thing the program does
Load ==
    /\ ctl.pos = "file" /\ fault = "none"
    /\ LET made == RomNew(ctl.file)
       IN  /\ rom' = IF made.fault = "none" THEN made.rom ELSE rom
           /\ fault' = made.fault
           /\ ctl' = [pos |-> "loaded", file |-> ctl.file, scored |-> made.scored]
    /\ UNCHANGED <<regs, flags, hregs, dma, wram, sram, ppu, clock, overflow_checks,
                   obs, ticks>>

InitLoad ==
    \E file \in Files :
        /\ regs = Regs0
        /\ flags = Flags0
        /\ hregs = HRegs0
        /\ dma = Dma0
        /\ wram = Wram0
        /\ sram = NoBytes
        /\ ppu = Ppu0
        /\ clock = 0
        /\ rom = NoRom
        /\ overflow_checks = FALSE
        /\ fault = "none"
        /\ ctl = [pos |-> "file", file |-> file]
        /\ ticks = 0
        /\ obs = [Obs0 EXCEPT !.done = FALSE]

NextLoad == Load

SpecLoad == InitLoad /\ [][NextLoad]_vars

\* Cpu::new: read the reset vector over the bus, then build registers and flags
New ==
    /\ ctl.pos = "new" /\ fault = "none"
    /\ LET built(x) ==
               [x EXCEPT !.regs = [Regs0 EXCEPT !.program_counter = x.v],
                         !.flags = Flags0]
       IN  Commit(TickEnd(built(ReadT(TickStart(Cur, "new"), 2, 0, RESET_VECTOR))))
    /\ ctl' = Idle
    /\ UNCHANGED ticks

\* construction, then the first ticks
InitReset ==
    \E s \in ResetStates :
        /\ regs = s.regs
        /\ flags = s.flags
        /\ hregs = s.hregs
        /\ dma = s.dma
        /\ wram = s.wram
        /\ sram = s.sram
        /\ ppu = s.ppu
        /\ clock = s.clock
        /\ rom = s.rom
        /\ overflow_checks = s.overflow_checks
        /\ fault = "none"
        /\ ctl = [pos |-> "new"]
        /\ ticks = 0
        /\ obs = [Obs0 EXCEPT !.done = FALSE]

NextReset == New \/ TickOpcode

SpecReset == InitReset /\ [][NextReset]_vars

\* mode and width changes
InitMode == \E s \in ModeStates : StartsAs(s)

NextMode == TickOpcode

SpecMode == InitMode /\ [][NextMode]_vars

\* block moves
InitMove == \E s \in MoveStates : StartsAs(s)

NextMove == TickOpcode

SpecMove == InitMove /\ [][NextMove]_vars

\* the unsupported instructions
InitAbort == \E s \in AbortStates : StartsAs(s)

NextAbort == TickOpcode

SpecAbort == InitAbort /\ [][NextAbort]_vars

\* the hardware divider
InitDivide == \E s \in DivideStates : StartsAs(s)

NextDivide == TickOpcode

SpecDivide == InitDivide /\ [][NextDivide]_vars

\* the raster IRQ and the NMI
InitRaster == \E s \in RasterStates : StartsAs(s)

NextRaster == TickNmi \/ TickIrq \/ TickOpcode

SpecRaster == InitRaster /\ [][NextRaster]_vars

\* the branches
InitBranch == \E s \in BranchStates : StartsAs(s)

NextBranch == TickOpcode

SpecBranch == InitBranch /\ [][NextBranch]_vars

(* ------------------------------ properties ----------------------------- *)
\* the pending action that a tick of each kind answers
ActionOf(kind) ==
    CASE kind = "nmi" -> NMI
      [] kind = "irq" -> IRQ
      [] kind = "dma" -> DMA
      [] OTHER -> "none"

\* the accesses of the running tick that read or write the byte at bank:offset
Accesses(rw, bank, offset) ==
    {k \in 1 .. Len(obs.log) :
        obs.log[k].rw = rw /\ obs.log[k].bank = bank /\ obs.log[k].offset = offset}

\* the bytes the running tick has written, as address-value pairs
Written == {<<obs.log[k].bank, obs.log[k].offset, obs.log[k].value>> :
                k \in {j \in 1 .. Len(obs.log) : obs.log[j].rw = "w"}}

\* the bytes the running DMA tick has moved, all channels together
Moved ==
    obs.moved[0] + obs.moved[1] + obs.moved[2] + obs.moved[3]
    + obs.moved[4] + obs.moved[5] + obs.moved[6] + obs.moved[7]

\* C1: a tick that finds an action pending handles the one of highest priority
\* (NMI, then IRQ, then DMA), clears that action's pending bit and no other,
\* reads no opcode (its only reads are the two vector bytes of an interrupt
\* entry or the bytes a DMA moves), and leaves the other pending actions
\* pending; a tick that finds none pending fetches an opcode at PB:PC and
\* clears nothing.
C1_TickArbitration ==
    obs.kind # "none" =>
        LET pending == obs.pre.cpu_action
        IN  /\ obs.kind = (IF NMI \in pending THEN "nmi"
                           ELSE IF IRQ \in pending THEN "irq"
                           ELSE IF DMA \in pending THEN "dma"
                           ELSE "opcode")
            /\ pending # {} =>
                  /\ obs.cleared = {ActionOf(obs.kind)}
                  /\ obs.opcode = -1
                  /\ obs.reads = (CASE obs.kind = "dma" -> Moved
                                    [] obs.entry = "none" -> 0
                                    [] OTHER -> 2)
                  /\ (pending \ obs.cleared) \subseteq hregs.cpu_action
            /\ pending = {} =>
                  /\ obs.cleared = {}
                  /\ fault = "none" =>
                        /\ obs.opcode \in Opcodes
                        /\ obs.log[1] = [rw |-> "r", bank |-> obs.pre.regs.program_bank,
                                         offset |-> obs.pre.regs.program_counter,
                                         value |-> obs.opcode]

\* an NMI tick taken with all three actions pending has left IRQ and DMA pending
C1_Witness ==
    /\ obs.kind = "nmi" /\ obs.done
    /\ obs.pre.cpu_action = {NMI, IRQ, DMA}
    /\ hregs.cpu_action = {IRQ, DMA}

\* C2: a DMA transfer starts only between ticks; from the write of a nonzero
\* mask to $420B until the transfer of that mask has completed, the only ticks
\* that start are NMI or IRQ entries and then the DMA tick itself, and no tick
\* starts while the transfer is running.
C2_DmaAtTickBoundary ==
    /\ [](obs.kind = "opcode" /\ obs.done /\ fault = "none" =>
            \A k \in Accesses("w", 0, \h420B) :
                (k = Len(obs.log) /\ obs.log[k].value # 0) =>
                    /\ DMA \in hregs.cpu_action
                    /\ hregs.dma_channel_mask = obs.log[k].value)
    /\ [][/\ (ctl.pos = "idle" /\ ctl'.pos = "dma") =>
                /\ obs.done /\ obs'.kind = "dma" /\ ticks' = ticks + 1
                /\ obs'.mask = hregs.dma_channel_mask
          /\ (DMA \in hregs.cpu_action /\ ticks' = ticks + 1) =>
                /\ obs'.kind \in {"nmi", "irq", "dma"}
                /\ obs'.kind # "dma" =>
                      /\ DMA \in hregs'.cpu_action
                      /\ hregs'.dma_channel_mask = hregs.dma_channel_mask
          /\ ctl.pos = "dma" => (ticks' = ticks /\ obs'.kind = "dma")
          /\ (ctl.pos = "dma" /\ ctl'.pos = "idle") =>
                (obs'.done /\ ctl.i = DMA_CHANNEL_COUNT)]_vars

\* STA $420B has stored mask 5, an NMI entry ran first, and the DMA tick for
\* mask 5 has completed as the third tick
C2_Witness ==
    /\ obs.kind = "dma" /\ obs.done /\ obs.mask = 5 /\ ticks = 3
    /\ obs.start.cpu_action = {}
    /\ obs.serviced = <<0, 2>>

\* C3: an IRQ tick taken while I is set enters no interrupt: registers, flags
\* and memory are as before the tick; taken while I is clear, it runs the IRQ
\* entry sequence.
C3_IrqGatedByI ==
    (obs.kind = "irq" /\ obs.done /\ fault = "none") =>
        IF obs.pre.flags.interrupt_disable
        THEN /\ obs.entry = "none"
             /\ regs = obs.pre.regs
             /\ flags = obs.pre.flags
             /\ obs.writes = 0
        ELSE /\ obs.entry = "Irq"
             /\ flags.interrupt_disable
             /\ regs.stack_pointer # obs.pre.regs.stack_pointer
             /\ obs.writes = IF flags.emulation_mode THEN 3 ELSE 4

\* an IRQ tick has run with I set
C3_Witness ==
    /\ obs.kind = "irq" /\ obs.done
    /\ obs.pre.flags.interrupt_disable
    /\ obs.entry = "none"

\* the address an interrupt entry pushes: past the signature byte for BRK and
\* COP, the next opcode for IRQ and NMI
PushedCounter ==
    IF obs.entry \in {"Break", "Coprocessor"}
    THEN W16(obs.pre.regs.program_counter + 2)
    ELSE obs.pre.regs.program_counter

\* C4: with s the stack pointer before an interrupt entry, native mode stores PB
\* at s, PC high at s-1, PC low at s-2 and P at s-3 and leaves S = s-4;
\* emulation mode stores PC high, PC low and P at s, s-1, s-2 and leaves
\* S = s-3 (addresses in bank 0, modulo 2^16).
C4_InterruptStackLayout ==
    (obs.entry # "none" /\ obs.done /\ fault = "none") =>
        LET s == obs.pre.regs.stack_pointer
            at(d) == W16(s - d)
            p == CHOOSE w \in Written : w[2] = at(IF flags.emulation_mode THEN 2 ELSE 3)
        IN  IF flags.emulation_mode
            THEN /\ Written = {<<0, at(0), Upper(PushedCounter)>>,
                               <<0, at(1), Lower(PushedCounter)>>, p}
                 /\ obs.writes = 3
                 /\ regs.stack_pointer = at(3)
            ELSE /\ Written = {<<0, at(0), obs.pre.regs.program_bank>>,
                               <<0, at(1), Upper(PushedCounter)>>,
                               <<0, at(2), Lower(PushedCounter)>>, p}
                 /\ obs.writes = 4
                 /\ regs.stack_pointer = at(4)

\* a native-mode NMI entry has pushed across the bottom of bank 0
C4_Witness ==
    /\ obs.entry = "Nmi" /\ obs.done /\ ~flags.emulation_mode
    /\ obs.pre.regs.stack_pointer = 1
    /\ regs.stack_pointer = \hFFFD
    /\ <<0, \hFFFF, Lower(obs.pre.regs.program_counter)>> \in Written

\* the vectors of the interrupt kinds, native and emulation
VectorOf ==
    [Break |-> [native |-> \hFFE6, emulation |-> \hFFFE],
     Coprocessor |-> [native |-> \hFFE5, emulation |-> \hFFF4],
     Irq |-> [native |-> \hFFEE, emulation |-> \hFFFE],
     Nmi |-> [native |-> \hFFEA, emulation |-> \hFFFA]]

\* C5: an interrupt entry loads PC from the word at its vector in bank 0
\* (BRK $FFE6/$FFFE, COP $FFE5/$FFF4, IRQ $FFEE/$FFFE, NMI $FFEA/$FFFA); B is
\* set by BRK and unchanged by COP, IRQ and NMI; I is set by BRK, COP and IRQ
\* and unchanged by NMI; D is cleared by all four.
C5_InterruptTable ==
    (obs.entry # "none" /\ obs.done /\ fault = "none") =>
        /\ regs.program_counter =
              ImageWord(rom.data, IF flags.emulation_mode
                                  THEN VectorOf[obs.entry].emulation
                                  ELSE VectorOf[obs.entry].native)
        /\ flags.break_flag = (obs.entry = "Break" \/ obs.pre.flags.break_flag)
        /\ flags.interrupt_disable =
              (obs.entry # "Nmi" \/ obs.pre.flags.interrupt_disable)
        /\ ~flags.decimal_mode

\* the instruction that undoes each first instruction of a pair
PairPartner ==
    (\h48 :> \h68) @@ (\hDA :> \hFA) @@ (\h5A :> \h7A) @@ (\h08 :> \h28)
    @@ (\h8B :> \hAB) @@ (\h0B :> \h2B) @@ (\h20 :> \h60) @@ (\h22 :> \h6B)
    @@ (\h00 :> \h40)

\* the bytes from the first instruction of a pair to the place the pair resumes
PairLength(op) ==
    CASE op = \h20 -> 3
      [] op = \h22 -> 4
      [] OTHER -> 2

\* the opcode at PB:PC of the initial state
FirstOpcode ==
    Peek(rom.data, rom20(obs.start.regs.program_bank,
                         obs.start.regs.program_counter), rom.fill)

\* C6: PHx then PLx, JSR then RTS, JSL then RTL and BRK then RTI run to their
\* end at every PC and leave S as before the first instruction, PC at the
\* instruction after the pair's first (after the signature byte for BRK),
\* modulo 2^16, and PB as before.
C6_BalancedPairs ==
    (obs.kind = "opcode" /\ obs.start.cpu_action = {}
        /\ FirstOpcode \in DOMAIN PairPartner) =>
        /\ (ticks = 1 /\ obs.opcode = FirstOpcode) => fault = "none"
        /\ (ticks = 2 /\ obs.opcode = PairPartner[FirstOpcode]) =>
              /\ fault = "none"
              /\ regs.stack_pointer = obs.start.regs.stack_pointer
              /\ regs.program_counter =
                    W16(obs.start.regs.program_counter + PairLength(FirstOpcode))
              /\ regs.program_bank = obs.start.regs.program_bank

\* the bytes a general-purpose DMA is asked to move on channel i: the count
\* register before the tick, 65536 when it holds 0
Requested(i) ==
    LET count == obs.pre.dma[i].hdma_indirect_address.offset
    IN  IF count = 0 THEN 65536 ELSE count

\* the channels whose bit is set in a mask, in ascending order
ChannelsOf(channel_mask) ==
    SelectSeq(<<0, 1, 2, 3, 4, 5, 6, 7>>,
              LAMBDA i : (channel_mask \div 2 ^ i) % 2 = 1)

\* the channel whose byte loop is running
InProgress(i) == ctl.pos = "dma" /\ ctl.inner /\ ctl.i = i

\* C7: a DMA tick takes the mask written to $420B and services the channels
\* whose bit is set, in ascending order, each to its end before the next; a
\* serviced channel moves as many bytes as its count asked (65536 for 0) and
\* ends with count 0; the other channels keep their registers; the request and
\* the mask are consumed, so no second DMA tick follows.
C7_DmaServicesMask ==
    /\ obs.kind = "dma" =>
          LET chosen == ChannelsOf(obs.mask)
              k == Len(obs.serviced)
          IN  /\ obs.mask = obs.pre.dma_channel_mask
              /\ k <= Len(chosen)
              /\ obs.serviced = SubSeq(chosen, 1, k)
              /\ obs.done => obs.serviced = chosen
              /\ \A j \in 1 .. k :
                    LET i == obs.serviced[j]
                    IN  IF InProgress(i)
                        THEN j = k /\ obs.moved[i] < Requested(i)
                        ELSE /\ obs.moved[i] = Requested(i)
                             /\ dma[i].hdma_indirect_address.offset = 0
              /\ \A i \in 0 .. DMA_CHANNEL_COUNT - 1 :
                    (\A j \in 1 .. k : obs.serviced[j] # i) =>
                        (dma[i] = obs.pre.dma[i] /\ obs.moved[i] = 0)
              /\ DMA \notin hregs.cpu_action
              /\ hregs.dma_channel_mask = 0
    /\ ticks > 2 => obs.kind = "opcode"

\* a channel with count 0 has moved 65536 bytes and the DMA tick is over
C7_Witness ==
    /\ obs.kind = "dma" /\ obs.done
    /\ obs.pre.dma[0].hdma_indirect_address.offset = 0
    /\ obs.moved[0] = 65536
    /\ dma[0].hdma_indirect_address.offset = 0

\* C8: after a DMA tick each serviced channel's source offset is its offset
\* before the tick plus the bytes moved in mode Increment, minus them in mode
\* Decrement (modulo 2^16), the same in mode Fixed; its source bank is the same.
C8_SourceOffsetAfterDma ==
    (obs.kind = "dma" /\ obs.done) =>
        \A j \in 1 .. Len(obs.serviced) :
            LET i == obs.serviced[j]
                before == obs.pre.dma[i]
            IN  /\ dma[i].source.bank = before.source.bank
                /\ dma[i].source.offset =
                      CASE before.increment_type = "Increment" ->
                              W16(before.source.offset + Requested(i))
                        [] before.increment_type = "Decrement" ->
                              W16(before.source.offset - Requested(i))
                        [] OTHER -> before.source.offset

\* the master cycles a DMA tick has charged so far beyond the cost of its bus
\* accesses
DmaCharge == clock - obs.pre.clock - obs.bus_cycles

\* C9 as stated: a DMA tick charges, besides its bus accesses, 8 master cycles
\* per serviced channel and 8 per byte moved.
C9_DmaChargePerChannelAndByte ==
    (obs.kind = "dma" /\ obs.done) =>
        DmaCharge = 8 * Len(obs.serviced) + 8 * Moved

\* C9: a DMA tick charges, besides its bus accesses, 8 master cycles once for
\* the tick, 8 per serviced channel and 8 per byte moved; the sum holds at
\* every point of the transfer.
C9_DmaChargeWithOverhead ==
    obs.kind = "dma" =>
        DmaCharge = 8 + 8 * Len(obs.serviced) + 8 * Moved

\* a DMA tick over channels 2 and 7 has moved 2 and 4 bytes
C9_Witness ==
    /\ obs.kind = "dma" /\ obs.done
    /\ obs.serviced = <<2, 7>>
    /\ obs.moved[2] = 2 /\ obs.moved[7] = 4
    /\ DmaCharge = 8 + 16 + 48

\* C10: in binary mode ADC #b leaves (a + b + c) mod 2^w in A and sets C iff
\* a + b + c >= 2^w; SBC #b leaves (a - b - (1 - c)) mod 2^w in A and sets C
\* iff a >= b + (1 - c); for both widths w, a the accumulator and c the carry
\* before the instruction.
C10_AdcSbcResultAndCarry ==
    (ticks = 1 /\ obs.done /\ obs.opcode \in {\h69, \hE9}
        /\ ~obs.start.flags.decimal_mode) =>
        LET w == IF obs.start.flags.memory_size THEN 256 ELSE 65536
            a == obs.start.regs.accumulator % w
            b == ImageWord(rom.data, W16(obs.start.regs.program_counter + 1)) % w
            c == B2N(obs.start.flags.carry)
        IN  /\ fault = "none"
            /\ IF obs.opcode = \h69
               THEN /\ regs.accumulator % w = (a + b + c) % w
                    /\ flags.carry = (a + b + c >= w)
               ELSE /\ regs.accumulator % w = (a - b - (1 - c)) % w
                    /\ flags.carry = (a >= b + (1 - c))

\* the offsets of bank 0 page 1
PageOne == \h0100 .. \h01FF

\* the pushes and pulls among the opcodes, with the bytes each moves
StackOpcodes == {\h08, \h0B, \h28, \h2B, \h48, \h5A, \h68, \h7A, \h8B, \hAB, \hDA, \hFA}

\* the bus accesses of the running tick after its opcode fetch
AfterFetch == 2 .. Len(obs.log)

\* C11: once the CPU is built, E=1 implies that S is within $0100-$01FF and
\* that every push or pull executed in emulation mode accesses the stack at an
\* address in $00:0100-$00:01FF.
C11_EmulationStackInPageOne ==
    (ctl.pos # "new" /\ flags.emulation_mode) =>
        /\ regs.stack_pointer \in PageOne
        /\ (obs.kind = "opcode" /\ obs.opcode \in StackOpcodes) =>
              \A k \in AfterFetch :
                  obs.log[k].bank = 0 /\ obs.log[k].offset \in PageOne

\* C19: right after construction over a cartridge with lo, hi at $00:FFFC and
\* $00:FFFD, PC = hi*256+lo, PB = $00, E = M = X = 1, I = 1 and S = $0000.
C19_ResetState ==
    (obs.kind = "new" /\ obs.done) =>
        /\ regs.program_counter = ImageWord(rom.data, \hFFFC)
        /\ regs.program_bank = 0
        /\ flags.emulation_mode /\ flags.memory_size /\ flags.index_size
        /\ flags.interrupt_disable
        /\ regs.stack_pointer = 0

\* C12: after XCE has switched from native to emulation mode (C=1, E=0
\* before), M=1, X=1 and the upper bytes of X and Y are 0; an indexed store
\* executed in emulation mode adds only the lower byte of X to its base.
C12_XceToEmulationNarrowsIndex ==
    /\ (obs.kind = "opcode" /\ obs.opcode = \hFB /\ obs.done
            /\ ~obs.pre.flags.emulation_mode /\ obs.pre.flags.carry) =>
          /\ flags.emulation_mode /\ flags.memory_size /\ flags.index_size
          /\ Upper(regs.index_x) = 0 /\ Upper(regs.index_y) = 0
    /\ (obs.kind = "opcode" /\ obs.opcode = \h9D /\ obs.done
            /\ obs.pre.flags.emulation_mode) =>
          \A w \in Written :
              w[2] = W16(\h1000 + Lower(obs.pre.regs.index_x))

\* C13: in every state E=1 implies M=1 and X=1: XCE leaves both set, and no
\* instruction executed in emulation mode (REP, SEP, PLP, RTI, interrupt
\* entry) clears either.
C13_EmulationForcesWidths ==
    /\ flags.emulation_mode => (flags.memory_size /\ flags.index_size)
    /\ (obs.kind = "opcode" /\ obs.opcode = \hFB /\ obs.done) =>
          (flags.memory_size /\ flags.index_size)

\* REP #$30 or #$FF has run in emulation mode, entered by XCE from native mode
\* with 16-bit widths, and both widths are still 8 bits
C13_Witness ==
    /\ obs.kind = "opcode" /\ obs.opcode = \hC2 /\ obs.done
    /\ BitAnd(obs.log[2].value, \h30) = \h30
    /\ obs.pre.flags.emulation_mode /\ flags.emulation_mode
    /\ ~obs.start.flags.emulation_mode
    /\ ~obs.start.flags.memory_size /\ ~obs.start.flags.index_size
    /\ flags.memory_size /\ flags.index_size

\* the byte an instruction loads into P or applies to it: the operand of SEP
\* and REP, the first byte pulled by PLP and RTI
StatusOperand == obs.log[2].value

\* C14: in native mode with X=0, SEP with bit 4 of its operand set makes the
\* upper bytes of X and Y zero and keeps their lower bytes; so do PLP and RTI
\* when the P they load has bit 4 set.
C14_IndexNarrowing ==
    (obs.kind = "opcode" /\ obs.done /\ obs.opcode \in {\hE2, \h28, \h40}
        /\ ~obs.pre.flags.emulation_mode /\ ~obs.pre.flags.index_size
        /\ Bit(StatusOperand, 4) = 1) =>
        /\ flags.index_size
        /\ regs.index_x = Lower(obs.pre.regs.index_x)
        /\ regs.index_y = Lower(obs.pre.regs.index_y)

\* SEP #$10 has narrowed X=$0356 and Y=$0478 to $56 and $78
C14_Witness ==
    /\ obs.kind = "opcode" /\ obs.done /\ obs.opcode = \hE2
    /\ StatusOperand = \h10
    /\ ~obs.pre.flags.emulation_mode /\ ~obs.pre.flags.index_size
    /\ obs.pre.regs.index_x = \h0356 /\ obs.pre.regs.index_y = \h0478
    /\ regs.index_x = \h56 /\ regs.index_y = \h78

\* C15 as stated: in native mode with M=0, SEP with bit 5 of its operand set
\* clears the upper byte of A and keeps the lower byte.
C15_SepNarrowsAccumulator ==
    (obs.kind = "opcode" /\ obs.done /\ obs.opcode = \hE2
        /\ ~obs.pre.flags.emulation_mode /\ ~obs.pre.flags.memory_size
        /\ Bit(StatusOperand, 5) = 1) =>
        /\ flags.memory_size
        /\ regs.accumulator = Lower(obs.pre.regs.accumulator)

\* C15 amended: in native mode with M=0, SEP with bit 5 of its operand set
\* sets M and leaves all 16 bits of the accumulator register as they were.
C15_SepKeepsAccumulator ==
    (obs.kind = "opcode" /\ obs.done /\ obs.opcode = \hE2
        /\ ~obs.pre.flags.emulation_mode /\ ~obs.pre.flags.memory_size
        /\ Bit(StatusOperand, 5) = 1) =>
        /\ flags.memory_size
        /\ regs.accumulator = obs.pre.regs.accumulator

\* SEP #$20 has run with A=$A5C3 and 16-bit accumulator width
C15_Witness ==
    /\ obs.kind = "opcode" /\ obs.done /\ obs.opcode = \hE2
    /\ StatusOperand = \h20
    /\ ~obs.pre.flags.emulation_mode /\ ~obs.pre.flags.memory_size
    /\ obs.pre.regs.accumulator = \hA5C3
    /\ flags.memory_size

\* the byte of the scenario: operand of its REP or SEP, status byte on its stack
ModeByte == Peek(rom.data, rom20(0, \h8020), rom.fill)

\* P as a byte: N V m x D I Z C, where bits 5 and 4 are U and B in emulation
\* mode, M and X in native mode
StatusByte(f) ==
    128 * B2N(f.negative) + 64 * B2N(f.overflow)
    + 32 * B2N(IF f.emulation_mode THEN f.unused_flag ELSE f.memory_size)
    + 16 * B2N(IF f.emulation_mode THEN f.break_flag ELSE f.index_size)
    + 8 * B2N(f.decimal_mode) + 4 * B2N(f.interrupt_disable)
    + 2 * B2N(f.zero) + B2N(f.carry)

\* the byte a PHP that follows the scenario's first instruction must push
PushedAfter(first) ==
    CASE first = \h28 -> ModeByte
      [] first = \hE2 -> BitOr(StatusByte(obs.start.flags), ModeByte)
      [] first = \hC2 -> BitAnd(StatusByte(obs.start.flags), BitNot(ModeByte, 8))

\* C16: in both modes PLP of a byte b followed by PHP pushes exactly b; SEP #v
\* or REP #v followed by PHP pushes (P OR v) or (P AND NOT v); bits 5 and 4 of
\* every byte PHP pushes are U and B in emulation mode, M and X in native mode.
C16_StatusRoundTrip ==
    (obs.kind = "opcode" /\ obs.opcode = \h08 /\ obs.done) =>
        /\ obs.writes = 1
        /\ \A w \in Written :
              /\ w[3] = StatusByte(obs.pre.flags)
              /\ (ticks = 2 /\ FirstOpcode \in {\h28, \hE2, \hC2}) =>
                    w[3] = PushedAfter(FirstOpcode)

\* in emulation mode PLP has pulled $FF and PHP has pushed $FF back
C16_Witness ==
    /\ obs.kind = "opcode" /\ obs.opcode = \h08 /\ obs.done
    /\ ticks = 2 /\ FirstOpcode = \h28 /\ ModeByte = \hFF
    /\ flags.emulation_mode
    /\ <<0, \h01F1, \hFF>> \in Written

\* the bus accesses of one block-move step after its opcode fetch: the two
\* bank operands, then one byte read at src_bank:from and written at dst_bank:to
MoveStep(from, to) ==
    /\ Len(obs.log) = 5
    /\ obs.log[2].rw = "r" /\ obs.log[3].rw = "r"
    /\ \E byte \in 0 .. 255 :
          /\ obs.log[4] = [rw |-> "r", bank |-> obs.log[3].value, offset |-> from,
                           value |-> byte]
          /\ obs.log[5] = [rw |-> "w", bank |-> obs.log[2].value, offset |-> to,
                           value |-> byte]

\* C17: an MVN started with A = n and run with nothing pending takes exactly
\* n+1 consecutive ticks; each copies one byte from src_bank:X to dst_bank:Y,
\* adds 1 to X and Y, subtracts 1 from A and charges two IO cycles; PC stays
\* on the MVN opcode until A wraps to $FFFF and is then past the 3 bytes.
C17_MvnTerminates ==
    (obs.kind = "opcode" /\ obs.opcode = \h54 /\ obs.done
        /\ obs.pre.cpu_action = {}) =>
        LET n == obs.start.regs.accumulator
        IN  /\ fault = "none"
            /\ MoveStep(obs.pre.regs.index_x, obs.pre.regs.index_y)
            /\ regs.index_x = W16(obs.pre.regs.index_x + 1)
            /\ regs.index_y = W16(obs.pre.regs.index_y + 1)
            /\ regs.accumulator = W16(obs.pre.regs.accumulator - 1)
            /\ clock - obs.pre.clock = obs.bus_cycles + 2 * IO_CYCLES
            /\ ticks <= n + 1
            /\ regs.accumulator = W16(n - ticks)
            /\ regs.program_bank = obs.start.regs.program_bank
            /\ regs.program_counter =
                  IF ticks < n + 1 THEN obs.start.regs.program_counter
                  ELSE W16(obs.start.regs.program_counter + 3)

\* an MVN started with A = 2 has ended with its third tick
C17_Witness ==
    /\ obs.kind = "opcode" /\ obs.opcode = \h54 /\ obs.done
    /\ obs.start.regs.accumulator = 2 /\ ticks = 3
    /\ obs.start.regs.index_x = \hFFFF
    /\ regs.index_x = 2
    /\ regs.accumulator = \hFFFF
    /\ regs.program_counter = \h8003

\* C18: each MVP step subtracts exactly 1 from X and from Y modulo 2^16: after
\* k steps X = X0 - k and Y = Y0 - k, and the k-th step copies the byte at
\* src_bank:(X0-k+1) to dst_bank:(Y0-k+1).
C18_MvpDecrementsBoth ==
    (obs.kind = "opcode" /\ obs.opcode = \h44 /\ obs.done /\ fault = "none") =>
        /\ regs.index_x = W16(obs.start.regs.index_x - ticks)
        /\ regs.index_y = W16(obs.start.regs.index_y - ticks)
        /\ MoveStep(W16(obs.start.regs.index_x - ticks + 1),
                    W16(obs.start.regs.index_y - ticks + 1))

\* the opcodes of ADC and SBC among the opcodes
AdcSbcOpcodes == {\h69, \h6D, \hE9, \hED}

\* C20: ADC or SBC executed with D set, WAI ($CB) and STP ($DB) end in the
\* fatal abort instead of completing, and the aborted ADC or SBC has changed
\* neither the accumulator nor C, V, Z, N.
C20_UnsupportedAborts ==
    (obs.kind = "opcode" /\ obs.done) =>
        /\ (obs.opcode \in {\hCB, \hDB}) => fault # "none"
        /\ (obs.opcode \in AdcSbcOpcodes /\ obs.pre.flags.decimal_mode) =>
              /\ fault # "none"
              /\ regs.accumulator = obs.pre.regs.accumulator
              /\ flags.carry = obs.pre.flags.carry
              /\ flags.overflow = obs.pre.flags.overflow
              /\ flags.zero = obs.pre.flags.zero
              /\ flags.negative = obs.pre.flags.negative

\* STP has aborted the core
C20_Witness ==
    /\ obs.kind = "opcode" /\ obs.done /\ obs.opcode = \hDB
    /\ fault = "stopped"

\* the register the divide scenario reads back in its third instruction
DivideReadsBack(offset) ==
    /\ obs.kind = "opcode" /\ obs.opcode = \hAD /\ obs.done /\ ticks = 3
    /\ obs.log[2].value = offset /\ obs.log[3].value = \h42

\* C21: after n is written to $4204/$4205 and d to $4206, $4214/$4215 read a
\* quotient q and $4216/$4217 a remainder r with n = q*d + r and r < d when
\* d # 0; with d = 0 the quotient reads $FFFF and the remainder n; no abort.
C21_HardwareDivision ==
    LET n == obs.start.regs.accumulator
        d == obs.start.regs.index_x
    IN  /\ fault = "none"
        /\ DivideReadsBack(\h14) =>
              IF d = 0 THEN regs.accumulator = \hFFFF
              ELSE \E r \in 0 .. d - 1 : n = regs.accumulator * d + r
        /\ DivideReadsBack(\h16) =>
              IF d = 0 THEN regs.accumulator = n
              ELSE /\ regs.accumulator < d
                   /\ \E q \in 0 .. n : n = q * d + regs.accumulator

\* $1234 divided by 7 has left the remainder 5 in A
C21_Witness ==
    /\ DivideReadsBack(\h16)
    /\ obs.start.regs.accumulator = \h1234 /\ obs.start.regs.index_x = 7
    /\ regs.accumulator = 5

\* C22: every tick that returns has advanced the master clock by at least 6
\* cycles, whichever branch it took (interrupt entry, suppressed or serviced
\* IRQ, DMA, opcode), and the master clock is never below an earlier reading.
C22_TickAdvancesClock ==
    /\ clock >= obs.pre.clock
    /\ (obs.kind # "none" /\ obs.done /\ fault = "none") =>
          clock >= obs.pre.clock + 6

\* the dots of the frame counted from its first
DotIndex(p) == p.v * DOTS_PER_LINE + p.h

\* the beam has reached V=row, H=0 during the running tick (within one frame)
Crossed(row) ==
    /\ DotIndex(obs.pre.ppu) < row * DOTS_PER_LINE
    /\ row * DOTS_PER_LINE <= DotIndex(ppu)

\* the values the running tick has read from the register at $00:offset
ReadFrom(offset) ==
    {obs.log[k].value : k \in Accesses("r", 0, offset)}

\* the running tick has left $4200 alone
InterruptEnableKept == \A w \in Written : w[2] # \h4200

\* C23: with $4200 selecting match-row and the row set to r, an IRQ becomes
\* pending when the beam reaches V=r, H=0, and only then; while the IRQ-active
\* indicator stays set no further IRQ is raised; a read of $4211 returns bit 7
\* set iff the indicator was set, and clears it, so that the next read returns
\* bit 7 clear unless a match came in between.
C23_RasterIrq ==
    (obs.kind # "none" /\ fault = "none" /\ InterruptEnableKept
        /\ obs.pre.hregs.irq_enabled \in {"MatchRow", "Never"}) =>
        LET was == obs.pre.hregs
            match == was.irq_enabled = "MatchRow" /\ Crossed(was.irq_row)
        IN  /\ (ReadFrom(\h4211) = {} /\ ~was.irq_active) =>
                  /\ hregs.irq_active <=> match
                  /\ match => IRQ \in hregs.cpu_action
                  /\ (~match /\ IRQ \in hregs.cpu_action) =>
                        (IRQ \in was.cpu_action /\ obs.kind # "irq")
            /\ (ReadFrom(\h4211) = {} /\ was.irq_active) =>
                  /\ hregs.irq_active
                  /\ IRQ \in hregs.cpu_action =>
                        (IRQ \in was.cpu_action /\ obs.kind # "irq")
            /\ (ReadFrom(\h4211) # {} /\ obs.done /\ ~match) =>
                  /\ ReadFrom(\h4211) = {IF was.irq_active THEN \h80 ELSE \h00}
                  /\ ~hregs.irq_active

\* the beam has reached row 51 during a NOP and the IRQ is pending
C23_Witness ==
    /\ obs.kind = "opcode" /\ obs.opcode = \hEA /\ obs.done
    /\ obs.pre.hregs.irq_enabled = "MatchRow" /\ obs.pre.hregs.irq_row = 51
    /\ ~obs.pre.hregs.irq_active /\ IRQ \notin obs.pre.cpu_action
    /\ Crossed(51)
    /\ hregs.irq_active /\ IRQ \in hregs.cpu_action

\* VBlank has started, or ended, during the running tick
VBlankEntered == ~obs.pre.hregs.vblank /\ hregs.vblank
VBlankLeft == obs.pre.hregs.vblank /\ ~hregs.vblank

\* C24: an NMI becomes pending exactly when VBlank starts while NMI is enabled
\* in $4200, never while it is disabled; the NMI indicator is set by the start
\* of VBlank, holds only while that VBlank lasts, and a read of $4210 returns
\* it in bit 7 and clears it.
C24_NmiSignalling ==
    /\ hregs.nmi_active => hregs.vblank
    /\ (obs.kind # "none" /\ fault = "none" /\ InterruptEnableKept) =>
          LET was == obs.pre.hregs
              raised == /\ NMI \in hregs.cpu_action
                        /\ (obs.kind = "nmi" \/ NMI \notin was.cpu_action)
          IN  /\ raised <=> (VBlankEntered /\ was.nmi_enabled)
              /\ ReadFrom(\h4210) = {} =>
                    hregs.nmi_active = (VBlankEntered \/ (was.nmi_active /\ ~VBlankLeft))
              /\ (ReadFrom(\h4210) # {} /\ obs.done /\ ~VBlankEntered /\ ~VBlankLeft) =>
                    /\ \A value \in ReadFrom(\h4210) :
                          Bit(value, 7) = B2N(was.nmi_active)
                    /\ ~hregs.nmi_active

\* the NMI handler, entered for the VBlank that started two ticks ago, has read
\* $4210 with bit 7 set and cleared the indicator
C24_Witness ==
    /\ obs.kind = "opcode" /\ obs.done /\ ticks = 3
    /\ regs.program_counter = \h9403
    /\ ReadFrom(\h4210) = {\h80 + CHIP_VERSION}
    /\ hregs.vblank /\ ~hregs.nmi_active

\* the flag each conditional branch tests and the value that takes it
BranchTest ==
    [i \in {\h10, \h30, \h50, \h70, \h90, \hB0, \hD0, \hF0} |->
        CASE i = \h10 -> <<"negative", FALSE>>
          [] i = \h30 -> <<"negative", TRUE>>
          [] i = \h50 -> <<"overflow", FALSE>>
          [] i = \h70 -> <<"overflow", TRUE>>
          [] i = \h90 -> <<"carry", FALSE>>
          [] i = \hB0 -> <<"carry", TRUE>>
          [] i = \hD0 -> <<"zero", FALSE>>
          [] i = \hF0 -> <<"zero", TRUE>>]

\* the displacement byte of the running branch, as a signed number
Displacement ==
    IF obs.log[2].value >= 128 THEN obs.log[2].value - 256 ELSE obs.log[2].value

\* C25: a conditional branch whose condition is false ends with PC 2 past the
\* opcode and charges nothing beyond its two fetches; one whose condition is
\* true ends with PC at opcode address + 2 + signed displacement modulo 2^16,
\* PB unchanged, and charges exactly one IO cycle of 6 master cycles more.
C25_ConditionalBranch ==
    (obs.kind = "opcode" /\ obs.done /\ obs.opcode \in DOMAIN BranchTest) =>
        LET was == obs.pre
            taken == was.flags[BranchTest[obs.opcode][1]] = BranchTest[obs.opcode][2]
        IN  /\ fault = "none"
            /\ obs.reads = 2 /\ obs.writes = 0
            /\ regs.program_bank = was.regs.program_bank
            /\ flags = was.flags
            /\ IF taken
               THEN /\ regs.program_counter =
                          (was.regs.program_counter + 2 + Displacement) % 65536
                    /\ clock - was.clock = obs.bus_cycles + 6
               ELSE /\ regs.program_counter = (was.regs.program_counter + 2) % 65536
                    /\ clock - was.clock = obs.bus_cycles

\* BEQ +2 with Z=1 has moved PC from $8100 to $8104
C25_Witness ==
    /\ obs.kind = "opcode" /\ obs.done /\ obs.opcode = \hF0
    /\ obs.pre.flags.zero /\ obs.log[2].value = 2
    /\ obs.pre.regs.program_counter = \h8100
    /\ regs.program_counter = \h8104

\* the tick just completed ran the opcode op from cartridge ROM in bank 0
RanFromRom(op) ==
    /\ obs.kind = "opcode" /\ obs.done /\ obs.opcode = op /\ fault = "none"
    /\ obs.pre.regs.program_bank = 0 /\ obs.pre.regs.program_counter >= 32768

(* C26 as stated: with M = 1, the tick that executes LDA #imm from cartridge
   ROM in bank $00 advances the master clock by exactly 12 cycles, two bus
   bytes at 6 cycles each and nothing else *)
C26_LdaImmediateTwelveCycles ==
    (RanFromRom(\hA9) /\ obs.pre.flags.memory_size)
        => /\ clock - obs.pre.clock = 12
           /\ obs.reads = 2 /\ obs.writes = 0 /\ obs.bus_cycles = 12

(* C26 amended: with M = 1, the tick that executes LDA #imm from cartridge ROM
   in bank $00 advances the master clock by exactly 16 cycles: two bus bytes
   at the 8 cycles of a ROM access each and nothing else *)
C26_LdaImmediateSixteenCycles ==
    (RanFromRom(\hA9) /\ obs.pre.flags.memory_size)
        => /\ clock - obs.pre.clock = 2 * SLOW_CYCLES
           /\ obs.reads = 2 /\ obs.writes = 0 /\ obs.bus_cycles = 2 * SLOW_CYCLES

C26_Witness ==
    /\ RanFromRom(\hA9) /\ obs.pre.flags.memory_size
    /\ obs.pre.flags.emulation_mode
    /\ obs.pre.regs.program_counter = \h8000
    /\ Lower(regs.accumulator) = \h7F /\ clock = 16

\* the accumulator-width instructions of scenario M
AccumulatorOpcodes ==
    {\h09, \h0A, \h1A, \h29, \h2A, \h3A, \h49, \h4A, \h68, \h69, \h6A, \h8A, \h98,
     \hA9, \hAD, \hE9}

\* an accumulator-width instruction has just run with M = 1
NarrowAccumulatorRan ==
    /\ obs.kind = "opcode" /\ obs.done /\ fault = "none"
    /\ obs.opcode \in AccumulatorOpcodes /\ obs.pre.flags.memory_size

(* C27: with M = 1, every accumulator-width instruction (LDA, ADC, SBC, AND,
   ORA, EOR, ASL/LSR/ROL/ROR A, INC A, DEC A, PLA, TXA, TYA) leaves the upper
   byte of the 16-bit accumulator as it was, and Z and N are those of the
   8-bit result *)
C27_NarrowAccumulatorKeepsUpperByte ==
    NarrowAccumulatorRan
        => /\ Upper(regs.accumulator) = Upper(obs.pre.regs.accumulator)
           /\ flags.zero = (Lower(regs.accumulator) = 0)
           /\ flags.negative = (Lower(regs.accumulator) >= 128)

C27_Witness ==
    /\ NarrowAccumulatorRan /\ obs.opcode = \h0A
    /\ obs.pre.regs.accumulator = \hA580 /\ regs.accumulator = \hA500
    /\ flags.zero /\ flags.carry /\ ~flags.negative

\* BIT has just run with the given opcode
BitRan(op) == obs.kind = "opcode" /\ obs.done /\ fault = "none" /\ obs.opcode = op

\* what BIT read: the bytes after the opcode for $89, the word at $00:0010 for $2C
BitOperand ==
    LET width == IF obs.pre.flags.memory_size THEN 1 ELSE 2
        from == IF obs.opcode = \h89 THEN 2 ELSE 4
        byte(k) == IF k <= Len(obs.log) THEN obs.log[k].value ELSE 0
    IN  IF width = 1 THEN byte(from) ELSE byte(from) + 256 * byte(from + 1)

\* the accumulator at the width of M before the tick
BitAccumulator ==
    IF obs.pre.flags.memory_size THEN Lower(obs.pre.regs.accumulator)
    ELSE obs.pre.regs.accumulator

(* C30: BIT with an immediate operand ($89) changes only Z (Z = 1 iff A AND
   operand = 0) and leaves N and V unchanged, whereas BIT with a memory
   operand additionally copies the operand's top two bits (7/6 in 8-bit, 15/14
   in 16-bit width) into N and V; A is never modified *)
C30_BitImmediateOnlyZero ==
    /\ BitRan(\h89)
         => /\ flags = [obs.pre.flags EXCEPT
                            !.zero = BitAnd(BitAccumulator, BitOperand) = 0]
            /\ regs.accumulator = obs.pre.regs.accumulator
    /\ BitRan(\h2C)
         => /\ flags = [obs.pre.flags EXCEPT
                            !.zero = BitAnd(BitAccumulator, BitOperand) = 0,
                            !.negative =
                                Bit(BitOperand, IF obs.pre.flags.memory_size THEN 7 ELSE 15) = 1,
                            !.overflow =
                                Bit(BitOperand, IF obs.pre.flags.memory_size THEN 6 ELSE 14) = 1]
            /\ regs.accumulator = obs.pre.regs.accumulator

\* the B-bus register slots a control value's transfer mode cycles through
Slots(control) ==
    CASE control % 8 = 0 -> <<0>>
      [] control % 8 = 1 -> <<0, 1>>
      [] control % 8 \in {2, 6} -> <<0, 0>>
      [] control % 8 \in {3, 7} -> <<0, 0, 1, 1>>
      [] control % 8 = 4 -> <<0, 1, 2, 3>>
      [] control % 8 = 5 -> <<0, 1, 0, 1>>

\* the B-bus address of byte k (from 0) of a channel
BBusAddress(channel, k) ==
    [bank |-> 0,
     offset |-> \h2100 + Lower(channel.destination)
                + Slots(channel.raw_control_value)[(k % Len(Slots(channel.raw_control_value))) + 1]]

\* where a logged bus access went
AddressOf(e) == [bank |-> e.bank, offset |-> e.offset]

(* C29: in every step that moves a byte, the k-th byte (k = 0, 1, 2, ...) of
   the channel uses the B-bus address $00:($2100 + dest_low + slot[k mod len])
   with the slot sequence of its control value (6 and 7 as 2 and 3): it is
   read from there when the direction bit is set and written there when it is
   clear *)
C29_DmaBBusAddress ==
    [][(ctl.pos = "dma" /\ ctl.inner /\ fault' = "none"
        /\ obs'.moved[ctl.i] = obs.moved[ctl.i] + 1)
         => LET l == obs'.log
                b == BBusAddress(dma[ctl.i], obs.moved[ctl.i])
            IN  /\ l[Len(l) - 1].rw = "r" /\ l[Len(l)].rw = "w"
                /\ IF Bit(dma[ctl.i].raw_control_value, 7) = 1
                   THEN AddressOf(l[Len(l) - 1]) = b
                   ELSE AddressOf(l[Len(l)]) = b]_vars

C29_Witness ==
    /\ ctl.pos = "dma" /\ ctl.inner /\ ctl.i = 0 /\ fault = "none"
    /\ dma[0].raw_control_value = 7 /\ obs.moved[0] = 4
    /\ obs.log[Len(obs.log)] = [rw |-> "w", bank |-> 0, offset |-> \h2119, value |-> \h44]

\* the file's length allows for an image: a multiple of 1024 bytes, bare or
\* after a 512-byte header
SizeAccepted(file) == file.size % 1024 \in {0, 512}

\* the byte of the image (the file without its 512-byte header) at index i
ImageByte(file, i) ==
    Peek(file.data, i + (IF file.size % 1024 = 512 THEN 512 ELSE 0), file.fill)

(* C28: for every image whose size mod 1024 is 0, or is 512 (its first 512
   bytes stripped), the loader scores the LoROM and the HiROM candidate, a
   candidate whose reset-vector high byte is below $80 or equal to $FF scores
   0, the higher score is selected with ties going to HiROM, and the loader
   aborts only when the selected score is 0; any other size mod 1024 aborts *)
C28_RomAcceptance ==
    ctl.pos = "loaded"
        => IF ~SizeAccepted(ctl.file) THEN fault # "none"
           ELSE /\ Len(ctl.scored) = 2
                /\ LET lo == ctl.scored[1]
                       hi == ctl.scored[2]
                       selected == IF hi.score >= lo.score THEN hi ELSE lo
                       boots(b) == b >= 128 /\ b # 255
                   IN  /\ ~boots(ImageByte(ctl.file, \h7FFD)) => lo.score = 0
                       /\ ~boots(ImageByte(ctl.file, \hFFFD)) => hi.score = 0
                       /\ (fault # "none") <=> (selected.score = 0)
                       /\ fault = "none" => rom.mode = selected.mode

\* the transfer instructions: source, destination and the flag that sets the
\* destination's width ("none": always 16 bits)
TransferTable ==
    (\h1B :> <<"A", "S", "none">>) @@ (\h3B :> <<"S", "A", "none">>)
    @@ (\h5B :> <<"A", "D", "none">>) @@ (\h7B :> <<"D", "A", "none">>)
    @@ (\h8A :> <<"X", "A", "M">>) @@ (\h98 :> <<"Y", "A", "M">>)
    @@ (\h9A :> <<"X", "S", "none">>) @@ (\h9B :> <<"X", "Y", "X">>)
    @@ (\hA8 :> <<"A", "Y", "X">>) @@ (\hAA :> <<"A", "X", "X">>)
    @@ (\hBA :> <<"S", "X", "X">>) @@ (\hBB :> <<"Y", "X", "X">>)

\* the byte width a flag selected before the tick
WidthBefore(flag) ==
    CASE flag = "M" -> IF obs.pre.flags.memory_size THEN 1 ELSE 2
      [] flag = "X" -> IF obs.pre.flags.index_size THEN 1 ELSE 2
      [] OTHER -> 2

\* a register's value cut to a byte width
Cut(value, width) == value % (2 ^ (8 * width))

\* a transfer instruction has just run
TransferRan ==
    /\ obs.kind = "opcode" /\ obs.done /\ fault = "none"
    /\ obs.opcode \in DOMAIN TransferTable

(* C31: TCS ($1B) and TXS ($9A) copy their source into S and leave Z and N
   unchanged; every other transfer sets Z and N from the transferred value at
   the destination's width *)
C31_TransfersToStackKeepFlags ==
    TransferRan
        => LET t == TransferTable[obs.opcode]
               width == WidthBefore(t[3])
               value == Cut(obs.pre.regs[RegField(t[1])], width)
           IN  /\ Cut(regs[RegField(t[2])], width) = value
               /\ IF t[2] = "S"
                  THEN flags.zero = obs.pre.flags.zero
                       /\ flags.negative = obs.pre.flags.negative
                  ELSE flags.zero = (value = 0)
                       /\ flags.negative = (value >= 2 ^ (8 * width - 1))

\* a comparison has just run: its register and the flag of its width
CompareTable ==
    (\hC0 :> <<"Y", "X">>) @@ (\hC9 :> <<"A", "M">>) @@ (\hCD :> <<"A", "M">>)
    @@ (\hE0 :> <<"X", "X">>) @@ (\hEC :> <<"X", "X">>)

CompareRan ==
    /\ obs.kind = "opcode" /\ obs.done /\ fault = "none"
    /\ obs.opcode \in DOMAIN CompareTable

\* the operand a comparison read: after the opcode, or after its two address bytes
CompareOperand(width) ==
    LET from == IF obs.opcode \in {\hCD, \hEC} THEN 4 ELSE 2
    IN  IF width = 1 THEN obs.log[from].value
        ELSE obs.log[from].value + 256 * obs.log[from + 1].value

(* C32: CMP/CPX/CPY with register value a and operand b, at the width selected
   by M (CMP) or X (CPX/CPY), set C iff b <= a unsigned, Z iff a = b and N to
   the top bit of (a - b) mod 2^w; the compared register, V and memory are
   unchanged *)
C32_CompareFlags ==
    CompareRan
        => LET t == CompareTable[obs.opcode]
               width == WidthBefore(t[2])
               a == Cut(obs.pre.regs[RegField(t[1])], width)
               b == CompareOperand(width)
           IN  /\ flags.carry = (b <= a)
               /\ flags.zero = (a = b)
               /\ flags.negative = (Cut(a - b, width) >= 2 ^ (8 * width - 1))
               /\ flags.overflow = obs.pre.flags.overflow
               /\ regs = [obs.pre.regs EXCEPT !.program_counter = regs.program_counter]
               /\ obs.writes = 0

C32_Witness ==
    /\ CompareRan /\ obs.opcode = \hC9 /\ ~obs.pre.flags.memory_size
    /\ obs.pre.regs.accumulator = \h12FF /\ CompareOperand(2) = \h8000
    /\ ~flags.carry /\ ~flags.zero /\ flags.negative

\* an instruction with an indexed address mode has just run
IndexedRan ==
    /\ obs.kind = "opcode" /\ obs.done /\ fault = "none"
    /\ obs.opcode \in IndexedOpcodes

\* the value of n bytes read from the k-th access of the tick on, low byte first
Fetched(k, n) ==
    obs.log[k].value + (IF n > 1 THEN 256 * obs.log[k + 1].value ELSE 0)
    + (IF n > 2 THEN 65536 * obs.log[k + 2].value ELSE 0)

\* where the operand of the instruction starts among the accesses of its tick
DataAt ==
    CASE obs.opcode \in {\hB9, \hBD} -> 4
      [] obs.opcode \in {\h9F, \hBF, \hB1} -> 5
      [] obs.opcode = \hB5 -> 3
      [] obs.opcode = \hB7 -> 6

\* a 24-bit address as bank and offset
Address24(a) == [bank |-> (a \div 65536) % 256, offset |-> a % 65536]

(* C33: for Absolute Long,X and [DP],Y the index is added to the full 24-bit
   base address (effective address = (base24 + index) mod 2^24, a carry out of
   the offset increments the bank); every other indexed mode wraps inside the
   16-bit offset and keeps the bank *)
C33_LongIndexCarriesIntoBank ==
    IndexedRan
        => LET was == obs.pre.regs
               within(bank, offset) == [bank |-> bank, offset |-> W16(offset)]
           IN  AddressOf(obs.log[DataAt]) =
                   CASE obs.opcode \in {\h9F, \hBF} ->
                            Address24(Fetched(2, 3) + was.index_x)
                     [] obs.opcode = \hB7 -> Address24(Fetched(3, 3) + was.index_y)
                     [] obs.opcode = \hBD ->
                            within(was.data_bank, Fetched(2, 2) + was.index_x)
                     [] obs.opcode = \hB9 ->
                            within(was.data_bank, Fetched(2, 2) + was.index_y)
                     [] obs.opcode = \hB5 ->
                            within(0, Fetched(2, 1) + was.direct_page + was.index_x)
                     [] obs.opcode = \hB1 ->
                            within(was.data_bank, Fetched(3, 2) + was.index_y)

\* the multi-byte accesses of an indexed instruction at operand width w: where
\* each starts among the accesses of the tick, and its length in bytes
MultiByte(w) ==
    CASE obs.opcode \in {\hB9, \hBD} -> {<<2, 2>>, <<4, w>>}
      [] obs.opcode \in {\h9F, \hBF} -> {<<2, 3>>, <<5, w>>}
      [] obs.opcode = \hB5 -> {<<3, w>>}
      [] obs.opcode = \hB1 -> {<<3, 2>>, <<5, w>>}
      [] obs.opcode = \hB7 -> {<<3, 3>>, <<6, w>>}

\* what the bus charges for a logged access
CostOf(e) == ByteAt(rom.mode, e.bank, e.offset).cycles

(* C34: a 16-bit access at bank:o touches bank:o and then bank:(o+1 mod 2^16),
   a 24-bit access also bank:(o+2 mod 2^16); the low byte comes first, and the
   master clock has advanced by each byte's cost before the next byte is
   accessed *)
C34_MultiByteAccess ==
    IndexedRan
        => /\ \A a \in MultiByte(WidthBefore("M")) :
                \A j \in 1 .. a[2] - 1 :
                    /\ obs.log[a[1] + j].rw = obs.log[a[1]].rw
                    /\ obs.log[a[1] + j].bank = obs.log[a[1]].bank
                    /\ obs.log[a[1] + j].offset = W16(obs.log[a[1]].offset + j)
                    /\ obs.stamps[a[1] + j] =
                           obs.stamps[a[1] + j - 1] + CostOf(obs.log[a[1] + j - 1])
           /\ Len(obs.log) = DataAt + WidthBefore("M") - 1
           /\ Cut(IF obs.opcode = \h9F THEN obs.pre.regs.accumulator
                  ELSE regs.accumulator, WidthBefore("M"))
                  = Fetched(DataAt, WidthBefore("M"))

C34_Witness ==
    /\ IndexedRan /\ obs.opcode = \hB7 /\ ~obs.pre.flags.memory_size
    /\ obs.pre.regs.direct_page = \hFFEF /\ obs.pre.regs.index_y = 0
    /\ AddressOf(obs.log[3]) = [bank |-> 0, offset |-> \hFFFF]
    /\ AddressOf(obs.log[4]) = [bank |-> 0, offset |-> 0]
    /\ AddressOf(obs.log[5]) = [bank |-> 0, offset |-> 1]
    /\ AddressOf(obs.log[6]) = [bank |-> \h7E, offset |-> \hFFFF]
    /\ AddressOf(obs.log[7]) = [bank |-> \h7E, offset |-> 0]
    /\ obs.stamps = <<0, 8, 22, 30, 38, 46, 54>>

\* an absolute 8-bit load or store has just run without a fault; its data
\* access is the fourth of the tick
BusRan ==
    /\ obs.kind = "opcode" /\ obs.done /\ fault = "none"
    /\ obs.opcode \in {\h8D, \hAD} /\ Len(obs.log) = 4

\* the devices as the tick found them (the fetches of the instruction touch
\* none of the fields compared below)
Before ==
    [wram |-> obs.pre.wram, hregs |-> obs.pre.hregs, dma |-> obs.pre.dma,
     ppu |-> obs.pre.ppu, v |-> 0]

\* the device, register and cost the bus map gives offset o of a bank with
\* bit 6 clear, below $6000
Routed(o) ==
    CASE o < \h2000 -> [device |-> "wram_data", register |-> o, cycles |-> 8]
      [] o \in \h2100 .. \h213F -> [device |-> "ppu", register |-> o % 64, cycles |-> 6]
      [] o \in \h2140 .. \h217F -> [device |-> "apu", register |-> o % 4, cycles |-> 6]
      [] o \in \h2180 .. \h21BF -> [device |-> "wram", register |-> o % 64, cycles |-> 6]
      [] o \in \h4000 .. \h407F ->
            [device |-> "joypad", register |-> o % 128, cycles |-> 12]
      [] o \in \h4200 .. \h427F -> [device |-> "regs", register |-> o % 128, cycles |-> 6]
      [] o \in \h4300 .. \h437F ->
            [device |-> "dma", register |-> o % 16, cycles |-> 6,
             channel |-> (o \div 16) % 8]
      [] OTHER -> [device |-> "open_bus", register |-> 0, cycles |-> 6]

\* the devices after register r.register of r.device is written with value
DeviceWritten(r, value) ==
    CASE r.device = "wram_data" ->
            LocWrite(Before, ByteAt(rom.mode, \h7E, r.register), value)
      [] r.device = "ppu" -> PpuWrite(Before, r.register, value)
      [] r.device = "wram" -> WramPortWrite(Before, r.register, value)
      [] r.device = "regs" -> RegsWrite(Before, r.register, value)
      [] r.device = "dma" ->
            [Before EXCEPT !.dma[r.channel] = DmaWrite(@, r.register, value)]
      [] OTHER -> Before

\* the devices, and the value in .v, after register r.register of r.device is
\* read (the picture, sound and joypad registers hold nothing in this model)
DeviceRead(r) ==
    CASE r.device = "wram_data" -> LocRead(Before, ByteAt(rom.mode, \h7E, r.register))
      [] r.device = "wram" -> WramPortRead(Before, r.register)
      [] r.device = "regs" -> RegsRead(Before, r.register)
      [] r.device = "dma" ->
            [Before EXCEPT !.v = DmaRead(Before.dma[r.channel], r.register)]
      [] OTHER -> Before

\* the register fields the dot clock leaves alone
Kept(hr) ==
    [hr EXCEPT !.cpu_action = {}, !.vblank = FALSE, !.hblank = FALSE,
               !.auto_read_active = 0, !.io_triggered = FALSE]

\* the devices now are as x has them
DevicesAre(x) ==
    /\ wram = x.wram
    /\ dma = x.dma
    /\ Kept(hregs) = Kept(x.hregs)
    /\ ppu.overscan_buffer = x.ppu.overscan_buffer

(* C35: in a bank with bit 6 clear, an access below $6000 reaches the device
   and register of the bus map ($2100-$213F PPU O&$3F, $2140-$217F APU O&3,
   $2180-$21BF WRAM port O&$3F, $4200-$427F system registers O&$7F,
   $4300-$437F register O&$F of DMA channel (O>>4)&7, $4000-$407F joypad,
   $0000-$1FFF the bytes of $7E:0000-$1FFF, anything else open bus), is
   charged 6 cycles (12 for the joypad, 8 for work RAM), and on open bus reads
   0 and changes nothing *)
C35_BusRouting ==
    (BusRan /\ Bit(obs.log[4].bank, 6) = 0 /\ obs.log[4].offset < \h6000)
        => /\ clock - obs.stamps[4] = Routed(obs.log[4].offset).cycles
           /\ IF obs.opcode = \h8D
              THEN DevicesAre(DeviceWritten(Routed(obs.log[4].offset), obs.log[4].value))
              ELSE /\ DevicesAre(DeviceRead(Routed(obs.log[4].offset)))
                   /\ obs.log[4].value = DeviceRead(Routed(obs.log[4].offset)).v
                   /\ Lower(regs.accumulator) = obs.log[4].value

C35_Witness ==
    /\ BusRan
    /\ obs.log[4] = [rw |-> "w", bank |-> \hBF, offset |-> \h4312, value |-> \hA1]
    /\ obs.pre.dma[1].source.offset = \h2000
    /\ dma[1].source.offset = \h20A1
    /\ clock - obs.stamps[4] = 6

\* the access just run went to the WRAM port register at $2180 + r, through
\* a bank with bit 6 clear
PortRan(r, rw) ==
    /\ BusRan /\ Bit(obs.log[4].bank, 6) = 0
    /\ obs.log[4].offset = \h2180 + r /\ obs.log[4].rw = rw

\* bits lo .. hi-1 of the cursor c replaced by those of the byte value
Spliced(c, lo, hi, value) ==
    (c \div (2 ^ hi)) * (2 ^ hi) + ((value * (2 ^ lo)) % (2 ^ hi)) + (c % (2 ^ lo))

(* C36: the WRAM port cursor stays within 17 bits; a write to $2181, $2182 or
   $2183 replaces its bits 0-7, 8-15 or bit 16 and leaves the others; a read
   or a write of $2180 accesses the work RAM byte at the cursor and then
   advances the cursor by one, from $1FFFF to 0 *)
C36_WramPortCursor ==
    /\ wram.address \in 0 .. \h1FFFF
    /\ PortRan(1, "w") => /\ wram.address = Spliced(obs.pre.wram.address, 0, 8,
                                                    obs.log[4].value)
                          /\ wram.data = obs.pre.wram.data
    /\ PortRan(2, "w") => /\ wram.address = Spliced(obs.pre.wram.address, 8, 16,
                                                    obs.log[4].value)
                          /\ wram.data = obs.pre.wram.data
    /\ PortRan(3, "w") => /\ wram.address = Spliced(obs.pre.wram.address, 16, 17,
                                                    obs.log[4].value)
                          /\ wram.data = obs.pre.wram.data
    /\ PortRan(0, "w") => /\ wram.address = (obs.pre.wram.address + 1) % \h20000
                          /\ wram.data = Poke(obs.pre.wram.data, obs.pre.wram.address,
                                              obs.log[4].value)
    /\ PortRan(0, "r") => /\ wram.address = (obs.pre.wram.address + 1) % \h20000
                          /\ wram.data = obs.pre.wram.data
                          /\ obs.log[4].value
                                 = Peek(obs.pre.wram.data, obs.pre.wram.address, 0)
                          /\ Lower(regs.accumulator) = obs.log[4].value

C36_Witness ==
    /\ PortRan(0, "w") /\ obs.pre.wram.address = \h1FFFF /\ obs.log[4].value = \hA1
    /\ wram.address = 0 /\ wram.data[\h1FFFF] = \hA1

(* C40: no byte read or write on the bus faults, whatever the 24-bit address,
   the mapping mode and the size of the loaded image *)
C40_BusAccessNeverFaults ==
    obs.kind = "opcode" => fault = "none"

(* C37: whenever the index-size flag X is 1, the upper bytes of the X and Y
   registers are zero *)
C37_NarrowIndexHasZeroUpperBytes ==
    flags.index_size => regs.index_x < 256 /\ regs.index_y < 256

(* C38: after the entry sequence of BRK, COP, IRQ or NMI, in native and in
   emulation mode, the program bank is $00, whatever it was before *)
C38_EntryClearsProgramBank ==
    (obs.done /\ obs.entry # "none" /\ fault = "none") => regs.program_bank = 0

(* C39: an IRQ that is pending at a tick taken with I = 1 (and no NMI pending)
   is still pending when the tick is over, so that its entry can run once I
   is clear *)
C39_MaskedIrqStaysPending ==
    (obs.done /\ obs.kind = "irq" /\ obs.pre.flags.interrupt_disable
     /\ IRQ \in obs.pre.cpu_action /\ fault = "none")
        => IRQ \in hregs.cpu_action

====
